---- MODULE Spec2Model ----
(***************************************************************************)
(* Copilot Browser Bridge: the request gateway (server.ts), the path       *)
(* safety module (path-safety.ts) and the chat relay / agent loop          *)
(* (llm-router.ts).                                                        *)
(*                                                                         *)
(* Text is a sequence of one-character strings, so that trim, split,       *)
(* startsWith and the like are computed as the code computes them.  A      *)
(* JavaScript value is a record [t |-> typeof, s |-> text].                *)
(***************************************************************************)
EXTENDS Integers, Sequences, FiniteSets, TLC

VARIABLES
  fs,            \* the workspace filesystem: absolute path -> node
  workspaceRoot, \* vscode.workspace.workspaceFolders[0].uri.fsPath
  pathIn,        \* path-safety: the inputPath / relativePath argument
  pathOut,       \* path-safety: what the functions returned
  pathPc,        \* path-safety: "input" | "done" | "off"
  configuredOrigins, \* setting copilotBrowserBridge.allowedExtensionOrigins
  gwPc,          \* gateway: "idle" | "body" | "route" | "await" | "done" | "off"
  req,           \* gateway: the request being handled
  reqBody,       \* gateway: what readBody delivered
  res,           \* gateway: the response (status, heads written, ends, headers)
  bodyRead,      \* gateway: readBody was called on the request
  handler,       \* gateway: the route handler that was entered
  fileData,      \* the text in each regular file: canonical path -> text
  fileHandlers,  \* handleFileOperation calls in flight: request, position, locals, status
  fsOps,         \* the filesystem operations performed for the current request / call
  upstreamCalls, \* gateway: backend and upstream calls made for the request
  resWritten,    \* handleChat: the arguments of res.write, in order
  bodyPromise,   \* readBody: "none" | "pending" | "resolved" | "REQUEST_TOO_LARGE" | "error"
  chunks,        \* readBody: const chunks, as the byte lengths of the buffers pushed
  receivedBytes, \* readBody: let receivedBytes
  received,      \* readBody: the byte lengths of all chunks the request has emitted
  reqDestroyed,  \* readBody: req.destroy() was called
  lmPc,          \* chatWithLMStudio: "call" | "awaitFetch" | "reading" | "ended" | "off"
  abortSignal,   \* chatWithLMStudio: the caller's AbortSignal (present, aborted)
  controller,    \* chatWithLMStudio: the AbortController, its abort listener and timer
  timedOut,      \* chatWithLMStudio: let timedOut
  fetchPromise,  \* chatWithLMStudio: state of the promise returned by fetch
  body,          \* chatWithLMStudio: the bytes of the response body
  reader,        \* chatWithLMStudio: read position, decoder, pending, streamDone, parseErrorCount
  lmOut,         \* chatWithLMStudio: what the generator has yielded
  lmHistory,     \* chatWithLMStudio: which of timer and abort fired first; Len(lmOut) at the abort
  agentPc,       \* chat: "call" | "select" | "loop" | "awaitModel" | "stream" | "tools" | "tool" | "fallback" | "copilot" | "done" | "threw" | "off"
  chatRequest,   \* chat: provider, settings.copilot.model, settings.lmStudio.endpoint, message roles
  lmModels,      \* the chat models vscode.lm has, each with id and family
  apiCalls,      \* chat: the calls made to vscode.lm, to the models and to fetch, in order
  chatOut,       \* chat: what the returned generator has yielded
  iterationCount, \* chatWithCopilotAgent: let iterationCount
  continueLoop,  \* chatWithCopilotAgent: let continueLoop
  chatMessages,  \* chatWithCopilotAgent: the messages sent to the model
  modelCalls,    \* chatWithCopilotAgent: the sendRequest calls made, in order
  stream,        \* chatWithCopilotAgent: the parts of response.stream not read yet
  toolCalls,     \* chatWithCopilotAgent: const toolCalls, of the round
  assistantParts, \* chatWithCopilotAgent: const assistantParts, of the round
  userResultParts, \* chatWithCopilotAgent: const userResultParts, of the round
  sendRequests,  \* chatWithCopilotAgent: each sendRequest of the loop: messages, token and its state, parts read
  tokenSources,  \* the CancellationTokenSources created by the call of chat(), in order
  toolPc,        \* executeAgentTool: "call" | "done" | "off"
  toolCall,      \* executeAgentTool: name and params
  toolResult,    \* executeAgentTool: the ToolResult returned
  enableAgentTerminalTool, \* setting copilotBrowserBridge.enableAgentTerminalTool
  terminalSent,  \* executeAgentTool: the commands sent to the terminal by the call
  toolCallCount, \* executeAgentTool: the calls made so far
  terminalsCreated, \* executeAgentTool: the terminals created by all calls so far
  server,        \* extension: let server, 0 for undefined or the index of a BridgeServer
  bridgeServers, \* extension: the BridgeServer objects created, in order: port, this.server, socket
  serverPort,    \* setting copilotBrowserBridge.serverPort
  portsInUse,    \* the ports other processes listen on
  shownMessage,  \* extension: the message shown last
  activated      \* extension: activate() has run and deactivate() has not

pathVars == <<pathIn, pathOut, pathPc>>
extensionVars == <<server, bridgeServers, serverPort, portsInUse, shownMessage, activated>>
fileVars == <<fileData, fileHandlers>>
readVars == <<bodyPromise, chunks, receivedBytes, received, reqDestroyed>>
gwVars == <<configuredOrigins, gwPc, req, reqBody, res, bodyRead, handler, upstreamCalls,
            resWritten, readVars>>
lmVars == <<lmPc, abortSignal, controller, timedOut, fetchPromise, body, reader, lmOut, lmHistory>>
loopVars == <<stream, toolCalls, assistantParts, userResultParts, sendRequests, tokenSources>>
agentVars == <<agentPc, iterationCount, continueLoop, chatMessages, modelCalls,
               chatRequest, lmModels, apiCalls, chatOut, loopVars>>
toolVars == <<toolPc, toolCall, toolResult, enableAgentTerminalTool, terminalSent,
              toolCallCount, terminalsCreated>>
routerVars == <<lmVars, agentVars, toolVars>>
vars == <<fs, workspaceRoot, fsOps, pathVars, extensionVars, fileVars, gwVars, routerVars>>

(***************************************************************************)
(* Bounds of the model.                                                    *)
(***************************************************************************)
MaxPathLen == 4   \* longest inputPath given to isSafeRelativePath
MaxChunks == 3   \* most "data" events of one request
MaxRelLen == 3    \* longest relativePath given to toWorkspaceFileUri
MaxToolCalls == 2 \* most tool calls the model returns in one round
MaxAgentToolCalls == 5 \* most tool calls the model returns in one call of chat()
MaxBridgeServers == 3 \* most BridgeServer objects the extension creates

(***************************************************************************)
(* JavaScript strings.                                                     *)
(***************************************************************************)
IsWhite(c) == c \in {" ", "\t", "\r", "\n"}

RECURSIVE TrimStart(_)
TrimStart(s) ==
  IF s # <<>> /\ IsWhite(Head(s)) THEN TrimStart(Tail(s)) ELSE s

RECURSIVE TrimEnd(_)
TrimEnd(s) ==
  IF s # <<>> /\ IsWhite(s[Len(s)]) THEN TrimEnd(SubSeq(s, 1, Len(s) - 1)) ELSE s

Trim(s) == TrimEnd(TrimStart(s))

StartsWith(s, p) == Len(s) >= Len(p) /\ SubSeq(s, 1, Len(p)) = p

EndsWith(s, p) == Len(s) >= Len(p) /\ SubSeq(s, Len(s) - Len(p) + 1, Len(s)) = p

Includes(s, p) == \E i \in 1..(Len(s) - Len(p) + 1) : SubSeq(s, i, i + Len(p) - 1) = p

\* String.prototype.indexOf for a one-character needle, 1-based; 0 is JS's -1.
IndexOf(s, c) ==
  IF \E i \in 1..Len(s) : s[i] = c
  THEN CHOOSE i \in 1..Len(s) : s[i] = c /\ \A j \in 1..(i - 1) : s[j] # c
  ELSE 0

RECURSIVE Split(_, _)
Split(s, c) ==
  LET i == IndexOf(s, c)
  IN IF i = 0 THEN <<s>>
     ELSE <<SubSeq(s, 1, i - 1)>> \o Split(SubSeq(s, i + 1, Len(s)), c)

ReplaceAll(s, from, to) == [i \in 1..Len(s) |-> IF s[i] = from THEN to ELSE s[i]]

ToLower(s) ==
  LET upper == <<"A", "B", "C", "D", "E", "F", "G", "H", "I", "J", "K", "L", "M">>
              \o <<"N", "O", "P", "Q", "R", "S", "T", "U", "V", "W", "X", "Y", "Z">>
      lower == <<"a", "b", "c", "d", "e", "f", "g", "h", "i", "j", "k", "l", "m">>
              \o <<"n", "o", "p", "q", "r", "s", "t", "u", "v", "w", "x", "y", "z">>
  IN [i \in 1..Len(s) |->
        IF \E k \in 1..Len(upper) : upper[k] = s[i]
        THEN lower[CHOOSE k \in 1..Len(upper) : upper[k] = s[i]]
        ELSE s[i]]

RECURSIVE Concat(_)
Concat(ss) == IF ss = <<>> THEN <<>> ELSE Head(ss) \o Concat(Tail(ss))

Str(s) == [t |-> "string", s |-> s]

NonStrings == {[t |-> k, s |-> <<>>] : k \in {"undefined", "null", "number", "object"}}

RECURSIVE TextsUpTo(_, _)
TextsUpTo(alphabet, n) ==
  IF n = 0 THEN {<<>>}
  ELSE LET shorter == TextsUpTo(alphabet, n - 1)
       IN shorter \cup {Append(s, c) : s \in shorter, c \in alphabet}

(***************************************************************************)
(* path-safety.ts: isSafeRelativePath, and the gateway's private copy.     *)
(***************************************************************************)
\* isSafeRelativePath with the last line testing '..' only.
Mutant_isSafeRelativePath(inputPath) ==
  IF inputPath.t # "string" \/ Trim(inputPath.s) = <<>> THEN FALSE
  ELSE LET normalized == Trim(ReplaceAll(inputPath.s, "\\", "/"))
       IN IF \/ StartsWith(normalized, <<"/">>)
             \/ Includes(normalized, <<":">>)
             \/ EndsWith(normalized, <<"/">>)
          THEN FALSE
          ELSE LET segments == Split(normalized, "/")
               IN /\ ~ \E i \in 1..Len(segments) : Len(segments[i]) = 0
                  /\ ~ \E i \in 1..Len(segments) : segments[i] = <<".", ".">>

isSafeRelativePath(inputPath) ==
  IF inputPath.t # "string" \/ Trim(inputPath.s) = <<>> THEN FALSE
  ELSE LET normalized == Trim(ReplaceAll(inputPath.s, "\\", "/"))
       IN IF \/ StartsWith(normalized, <<"/">>)
             \/ Includes(normalized, <<":", "/", "/">>)
             \/ Includes(normalized, <<":">>)
          THEN FALSE
          ELSE IF EndsWith(normalized, <<"/">>) THEN FALSE
          ELSE LET segments == Split(normalized, "/")
               IN IF \E i \in 1..Len(segments) : Len(segments[i]) = 0 THEN FALSE
                  ELSE ~ \E i \in 1..Len(segments) :
                           segments[i] = <<".", ".">> \/ segments[i] = <<".">>

BridgeServer_isSafeRelativePath(inputPath) ==
  IF inputPath.t # "string" \/ Trim(inputPath.s) = <<>> THEN FALSE
  ELSE LET normalized == Trim(ReplaceAll(inputPath.s, "\\", "/"))
       IN IF \/ StartsWith(normalized, <<"/">>)
             \/ Includes(normalized, <<":", "/", "/">>)
             \/ Includes(normalized, <<":">>)
          THEN FALSE
          ELSE IF EndsWith(normalized, <<"/">>) THEN FALSE
          ELSE LET segments == Split(normalized, "/")
               IN IF \E i \in 1..Len(segments) : Len(segments[i]) = 0 THEN FALSE
                  ELSE ~ \E i \in 1..Len(segments) :
                           segments[i] = <<".", ".">> \/ segments[i] = <<".">>

(***************************************************************************)
(* Paths and the filesystem.  An absolute path is text ("/w/a"); the       *)
(* filesystem maps each existing path to a directory, a file or a symbolic *)
(* link with an absolute target.                                           *)
(***************************************************************************)
LinkFuel == 3   \* symbolic links followed in one resolution before ELOOP

Dir == [kind |-> "dir", target |-> <<>>]
File == [kind |-> "file", target |-> <<>>]
Link(target) == [kind |-> "link", target |-> target]

PathSegs(p) == SelectSeq(Split(p, "/"), LAMBDA x : x # <<>>)

JoinAbs(segs) ==
  IF segs = <<>> THEN <<"/">>
  ELSE Concat([i \in 1..Len(segs) |-> <<"/">> \o segs[i]])

\* posix path normalisation: '.' dropped, '..' pops, never above the root.
RECURSIVE NormSegs(_, _)
NormSegs(done, rest) ==
  IF rest = <<>> THEN done
  ELSE IF Head(rest) = <<".">> THEN NormSegs(done, Tail(rest))
  ELSE IF Head(rest) = <<".", ".">>
       THEN NormSegs(IF done = <<>> THEN done ELSE SubSeq(done, 1, Len(done) - 1), Tail(rest))
  ELSE NormSegs(Append(done, Head(rest)), Tail(rest))

pathResolve(p) == JoinAbs(NormSegs(<<>>, PathSegs(p)))

dirname(p) ==
  LET segs == PathSegs(p)
  IN IF segs = <<>> THEN <<"/">> ELSE JoinAbs(SubSeq(segs, 1, Len(segs) - 1))

uriJoinPath(base, segments) == JoinAbs(NormSegs(<<>>, PathSegs(base) \o segments))

\* The kernel's path walk: [ok |-> the path exists, segs |-> the canonical
\* location], every symbolic link on the way followed.  When the walk
\* stops at a missing name, segs is the canonical prefix plus the rest:
\* the place a create would touch.
RECURSIVE Walk(_, _, _, _)
Walk(f, cur, rest, fuel) ==
  IF rest = <<>> THEN [ok |-> TRUE, err |-> "", segs |-> cur]
  ELSE LET next == Append(cur, Head(rest))
           p == JoinAbs(next)
       IN IF p \notin DOMAIN f THEN [ok |-> FALSE, err |-> "ENOENT", segs |-> cur \o rest]
          ELSE IF f[p].kind = "link"
               THEN IF fuel = 0 THEN [ok |-> FALSE, err |-> "ELOOP", segs |-> cur \o rest]
                    ELSE Walk(f, <<>>, PathSegs(f[p].target) \o Tail(rest), fuel - 1)
          ELSE IF f[p].kind = "file" /\ Tail(rest) # <<>>
               THEN [ok |-> FALSE, err |-> "ENOTDIR", segs |-> cur \o rest]
          ELSE Walk(f, next, Tail(rest), fuel)

existsSync(f, p) == Walk(f, <<>>, PathSegs(p), LinkFuel).ok

realpathSync(f, p) == JoinAbs(Walk(f, <<>>, PathSegs(p), LinkFuel).segs)

\* Where an operation on p lands: all links followed (read, write, stat,
\* mkdir), or all but the last name (delete unlinks the name itself).
Canon(f, p, followLast) ==
  IF followLast \/ PathSegs(p) = <<>> THEN realpathSync(f, p)
  ELSE LET segs == PathSegs(p)
       IN JoinAbs(Append(Walk(f, <<>>, SubSeq(segs, 1, Len(segs) - 1), LinkFuel).segs,
                         segs[Len(segs)]))

Platform == "linux"

normalizeForComparison(filePath) ==
  IF Platform = "win32" THEN ToLower(pathResolve(filePath)) ELSE pathResolve(filePath)

RECURSIVE resolveExistingAncestorPath(_, _)
resolveExistingAncestorPath(f, filePath) ==
  LET currentPath == pathResolve(filePath)
  IN IF existsSync(f, currentPath) THEN realpathSync(f, currentPath)
     ELSE LET parentPath == dirname(currentPath)
          IN IF parentPath = currentPath THEN currentPath
             ELSE resolveExistingAncestorPath(f, parentPath)

isWithinWorkspace(f, workspaceUri, targetUri) ==
  LET workspacePath ==
        normalizeForComparison(resolveExistingAncestorPath(f, pathResolve(workspaceUri)))
      targetPath ==
        normalizeForComparison(resolveExistingAncestorPath(f, pathResolve(targetUri)))
  IN targetPath = workspacePath \/ StartsWith(targetPath, workspacePath \o <<"/">>)

Null == [t |-> "null", s |-> <<>>]

toWorkspaceFileUri(f, workspaceUri, relativePath) ==
  IF ~ isSafeRelativePath(relativePath) THEN Null
  ELSE LET segments == PathSegs(ReplaceAll(relativePath.s, "\\", "/"))
           fileUri == uriJoinPath(workspaceUri, segments)
       IN IF isWithinWorkspace(f, workspaceUri, fileUri) THEN Str(fileUri) ELSE Null

\* server.ts: the gateway's own isWithinWorkspace, a comparison of strings.
BridgeServer_isWithinWorkspace(workspaceUri, targetUri) ==
  LET workspacePath == ToLower(pathResolve(workspaceUri))
      targetPath == ToLower(pathResolve(targetUri))
  IN targetPath = workspacePath \/ StartsWith(targetPath, workspacePath \o ToLower(<<"/">>))

\* The workspaces the model runs in: the root and what is on disk.
Workspaces ==
  LET w == <<"/", "w">>
      wa == <<"/", "w", "/", "a">>
      waa == <<"/", "w", "/", "a", "/", "a">>
      wd == <<"/", "w", "/", "d">>
      wda == <<"/", "w", "/", "d", "/", "a">>
      o == <<"/", "o">>
      oa == <<"/", "o", "/", "a">>
      slash == <<"/">>
  IN << \* 1: the workspace is the filesystem root
        [root |-> slash,
         nodes |-> (slash :> Dir) @@ (<<"/", "a">> :> Dir) @@ (<<"/", "a", "/", "a">> :> File)],
        \* 2: a plain tree
        [root |-> w,
         nodes |-> (slash :> Dir) @@ (w :> Dir) @@ (wa :> Dir) @@ (waa :> File)
                   @@ (o :> Dir) @@ (oa :> File)],
        \* 3: the root is reached through a symlinked ancestor, /l -> /r
        [root |-> <<"/", "l", "/", "w">>,
         nodes |-> (slash :> Dir) @@ (<<"/", "l">> :> Link(<<"/", "r">>))
                   @@ (<<"/", "r">> :> Dir) @@ (<<"/", "r", "/", "w">> :> Dir)
                   @@ (<<"/", "r", "/", "w", "/", "a">> :> File)],
        \* 4: a directory link inside the workspace that stays inside
        [root |-> w,
         nodes |-> (slash :> Dir) @@ (w :> Dir) @@ (wa :> Link(wd)) @@ (wd :> Dir)
                   @@ (wda :> File) @@ (o :> Dir) @@ (oa :> File)],
        \* 5: a directory link inside the workspace that leads outside
        [root |-> w,
         nodes |-> (slash :> Dir) @@ (w :> Dir) @@ (wa :> Link(o))
                   @@ (o :> Dir) @@ (oa :> File)],
        \* 6: a file link inside the workspace that leads outside
        [root |-> w,
         nodes |-> (slash :> Dir) @@ (w :> Dir) @@ (wa :> Link(oa))
                   @@ (o :> Dir) @@ (oa :> File)],
        \* 7: a dangling link to a name outside
        [root |-> w,
         nodes |-> (slash :> Dir) @@ (w :> Dir) @@ (wa :> Link(<<"/", "o", "/", "d">>))
                   @@ (o :> Dir) @@ (oa :> File)],
        \* 8: a sibling whose name starts with the root's name
        [root |-> w,
         nodes |-> (slash :> Dir) @@ (w :> Dir) @@ (wa :> Link(<<"/", "w", "w">>))
                   @@ (<<"/", "w", "w">> :> Dir) @@ (<<"/", "w", "w", "/", "a">> :> File)]
     >>

(***************************************************************************)
(* The path-safety functions applied to one input.                         *)
(***************************************************************************)
\* No handleFileOperation call is followed step by step.
FileCallsOff == fileData = <<>> /\ fileHandlers = <<>>

\* The extension has not been activated.
ExtensionOff ==
  /\ server = 0
  /\ bridgeServers = <<>>
  /\ serverPort = 3210
  /\ portsInUse = {}
  /\ shownMessage = ""
  /\ activated = FALSE

PathOff == pathIn = Null /\ pathOut = Null /\ pathPc = "off"

\* No readBody is in progress.
ReadOff ==
  /\ bodyPromise = "none"
  /\ chunks = <<>>
  /\ receivedBytes = 0
  /\ received = <<>>
  /\ reqDestroyed = FALSE

GatewayOff ==
  /\ configuredOrigins = <<>>
  /\ gwPc = "off"
  /\ req = Null
  /\ reqBody = Null
  /\ res = Null
  /\ bodyRead = FALSE
  /\ handler = "none"
  /\ upstreamCalls = <<>>
  /\ resWritten = <<>>
  /\ ReadOff

LMStudioIdle ==
  /\ lmPc = "off"
  /\ controller = Null
  /\ timedOut = FALSE
  /\ fetchPromise = "none"
  /\ body = <<>>
  /\ reader = Null
  /\ lmOut = <<>>
  /\ lmHistory = Null

LMStudioOff ==
  /\ abortSignal = Null
  /\ LMStudioIdle

LoopOff ==
  /\ stream = <<>>
  /\ toolCalls = <<>>
  /\ assistantParts = <<>>
  /\ userResultParts = <<>>
  /\ sendRequests = <<>>
  /\ tokenSources = <<>>

AgentOff ==
  /\ agentPc = "off"
  /\ LoopOff
  /\ chatRequest = Null
  /\ lmModels = <<>>
  /\ apiCalls = <<>>
  /\ chatOut = <<>>
  /\ iterationCount = 0
  /\ continueLoop = FALSE
  /\ chatMessages = <<>>
  /\ modelCalls = <<>>

ToolOff ==
  /\ toolPc = "off"
  /\ toolCall = Null
  /\ toolResult = Null
  /\ enableAgentTerminalTool = FALSE
  /\ terminalSent = <<>>
  /\ toolCallCount = 0
  /\ terminalsCreated = 0

RouterOff == LMStudioOff /\ AgentOff /\ ToolOff

InitSafePath ==
  /\ ExtensionOff
  /\ GatewayOff
  /\ RouterOff
  /\ FileCallsOff
  /\ fsOps = <<>>
  /\ fs = Workspaces[2].nodes
  /\ workspaceRoot = Workspaces[2].root
  /\ pathIn \in NonStrings
       \cup {Str(s) : s \in TextsUpTo({"a", ".", "/", "\\", ":", " "}, MaxPathLen)}
  /\ pathOut = Null
  /\ pathPc = "input"

CheckSafeRelativePath ==
  /\ pathPc = "input"
  /\ pathOut' = [safe |-> isSafeRelativePath(pathIn),
                 gateway |-> BridgeServer_isSafeRelativePath(pathIn)]
  /\ pathPc' = "done"
  /\ UNCHANGED <<fs, workspaceRoot, fsOps, pathIn, extensionVars, fileVars, gwVars, routerVars>>

SpecSafePath == InitSafePath /\ [][CheckSafeRelativePath]_vars

InitWorkspaceUri ==
  /\ ExtensionOff
  /\ GatewayOff
  /\ RouterOff
  /\ FileCallsOff
  /\ fsOps = <<>>
  /\ \E i \in 1..Len(Workspaces) :
       fs = Workspaces[i].nodes /\ workspaceRoot = Workspaces[i].root
  /\ pathIn \in {Str(s) : s \in TextsUpTo({"a", ".", "/", "\\", " "}, MaxRelLen)}
  /\ pathOut = Null
  /\ pathPc = "input"

ResolveWorkspaceFileUri ==
  /\ pathPc = "input"
  /\ LET uri == toWorkspaceFileUri(fs, workspaceRoot, pathIn)
     IN pathOut' = [uri |-> uri,
                    within |-> uri # Null /\ isWithinWorkspace(fs, workspaceRoot, uri.s)]
  /\ pathPc' = "done"
  /\ UNCHANGED <<fs, workspaceRoot, fsOps, pathIn, extensionVars, fileVars, gwVars, routerVars>>

SpecWorkspaceUri == InitWorkspaceUri /\ [][ResolveWorkspaceFileUri]_vars

(***************************************************************************)
(* C9: isSafeRelativePath is false for every input that is not a string,   *)
(* is blank or, once backslashes are '/' and the ends trimmed, starts with *)
(* '/', contains ':', ends with '/', has an empty segment or a segment '.' *)
(* or '..'; it is true for every other string; and the gateway's private   *)
(* copy returns the same.  The rejected shapes are stated on character     *)
(* positions, not through split.                                           *)
(***************************************************************************)
C9_Rejected(v) ==
  \/ v.t # "string"
  \/ \A i \in 1..Len(v.s) : IsWhite(v.s[i])
  \/ LET n == Trim([i \in 1..Len(v.s) |-> IF v.s[i] = "\\" THEN "/" ELSE v.s[i]])
         L == Len(n)
         SegmentAt(i, j) ==
           /\ i = 1 \/ n[i - 1] = "/"
           /\ j = L \/ n[j + 1] = "/"
           /\ \A k \in i..j : n[k] # "/"
     IN \/ n[1] = "/"
        \/ \E i \in 1..L : n[i] = ":"
        \/ n[L] = "/"
        \/ \E i \in 1..(L - 1) : n[i] = "/" /\ n[i + 1] = "/"
        \/ \E i \in 1..L : SegmentAt(i, i) /\ n[i] = "."
        \/ \E i \in 1..(L - 1) : SegmentAt(i, i + 1) /\ n[i] = "." /\ n[i + 1] = "."

C9_SafeRelativePathCharacterised ==
  pathPc = "done" =>
    /\ pathOut.safe = ~ C9_Rejected(pathIn)
    /\ pathOut.gateway = pathOut.safe

C9_Witness ==
  /\ pathPc = "done"
  /\ pathIn = Str(<<"a", "\\", ".", ".">>)
  /\ pathOut.safe = FALSE

(***************************************************************************)
(* C10: for every safe relative path p and every workspace root,           *)
(* toWorkspaceFileUri(root, p) is a non-null URI below root for which      *)
(* isWithinWorkspace(root, uri) is true.                                   *)
(***************************************************************************)
C10_SafePathResolvesInsideRoot ==
  pathPc = "done" /\ isSafeRelativePath(pathIn) =>
    /\ pathOut.uri # Null
    /\ PathSegs(pathOut.uri.s) # PathSegs(workspaceRoot)
    /\ SubSeq(PathSegs(pathOut.uri.s), 1, Len(PathSegs(workspaceRoot)))
         = PathSegs(workspaceRoot)
    /\ pathOut.within

(***************************************************************************)
(* The Workspace Filesystem capability (vscode.workspace.fs) on the model  *)
(* filesystem.  Each operation returns [ok, fs, at]: whether it succeeded, *)
(* the filesystem after it and the canonical place it touched.             *)
(***************************************************************************)
NoNode == [kind |-> "none", target |-> <<>>]

\* fs.stat follows links; a missing path throws, which statSafe turns to null.
statSafe(f, uri) ==
  LET w == Walk(f, <<>>, PathSegs(uri), LinkFuel)
  IN IF w.ok THEN f[JoinAbs(w.segs)] ELSE NoNode

isRegularFile(node) == node.kind = "file"

MkdirP(f, segs) ==
  LET missing == {JoinAbs(SubSeq(segs, 1, k)) : k \in 0..Len(segs)} \ DOMAIN f
  IN f @@ [p \in missing |-> Dir]

fsCreateDirectory(f, uri) ==
  LET w == Walk(f, <<>>, PathSegs(uri), LinkFuel)
      at == JoinAbs(w.segs)
  IN IF w.ok THEN [ok |-> f[at].kind = "dir", fs |-> f, at |-> at]
     ELSE IF w.err = "ENOENT" THEN [ok |-> TRUE, fs |-> MkdirP(f, w.segs), at |-> at]
     ELSE [ok |-> FALSE, fs |-> f, at |-> at]

fsWriteFile(f, uri) ==
  LET w == Walk(f, <<>>, PathSegs(uri), LinkFuel)
      at == JoinAbs(w.segs)
  IN IF w.ok THEN [ok |-> f[at].kind = "file", fs |-> f, at |-> at]
     ELSE IF w.err = "ENOENT" /\ w.segs # <<>>
          THEN [ok |-> TRUE,
                fs |-> (at :> File) @@ MkdirP(f, SubSeq(w.segs, 1, Len(w.segs) - 1)),
                at |-> at]
     ELSE [ok |-> FALSE, fs |-> f, at |-> at]

fsReadFile(f, uri) ==
  LET w == Walk(f, <<>>, PathSegs(uri), LinkFuel)
      at == JoinAbs(w.segs)
  IN [ok |-> w.ok /\ f[at].kind = "file", fs |-> f, at |-> at]

\* delete with recursive: false unlinks the name itself, link or file.
fsDelete(f, uri) ==
  LET at == Canon(f, uri, FALSE)
  IN IF at \in DOMAIN f /\ f[at].kind # "dir"
     THEN [ok |-> TRUE, fs |-> [p \in DOMAIN f \ {at} |-> f[p]], at |-> at]
     ELSE [ok |-> FALSE, fs |-> f, at |-> at]

\* One entry of fsOps: the operation, the path it was given and the
\* canonical place it touched.
FsOp(op, uri, at) == [op |-> op, path |-> uri, at |-> at]

\* at is the canonical root or below it.
InsideRoot(rootCanon, at) ==
  /\ Len(PathSegs(at)) >= Len(PathSegs(rootCanon))
  /\ SubSeq(PathSegs(at), 1, Len(PathSegs(rootCanon))) = PathSegs(rootCanon)

(***************************************************************************)
(* server.ts: the request gateway.                                         *)
(***************************************************************************)
Undefined == [t |-> "undefined", s |-> <<>>]

ChromeExtension == <<"c", "h", "r", "o", "m", "e", "-", "e", "x", "t", "e", "n", "s", "i", "o", "n">>

ExtensionIdLength == 32

DEFAULT_ALLOWED_EXTENSION_ORIGINS ==
  <<ChromeExtension \o <<":", "/", "/">> \o <<"n", "g", "g", "f", "p", "d", "a", "d", "f", "e", "p", "k", "b", "p", "j", "f", "n", "p", "c", "i", "h", "a", "g", "b", "n", "n", "f", "p", "e", "i", "a", "n">>>>

\* /^chrome-extension:\/\/[a-p]{32}$/
MatchesExtensionOrigin(value) ==
  LET prefix == ChromeExtension \o <<":", "/", "/">>
  IN /\ StartsWith(value, prefix)
     /\ Len(value) = Len(prefix) + ExtensionIdLength
     /\ \A i \in (Len(prefix) + 1)..Len(value) :
          value[i] \in {"a", "b", "c", "d", "e", "f", "g", "h",
                        "i", "j", "k", "l", "m", "n", "o", "p"}

\* JavaScript truthiness of a string | undefined.
Truthy(v) == v.t = "string" /\ v.s # <<>>

getRequestOrigin(r) == IF r.origin.t = "string" THEN r.origin ELSE Undefined

Mutant_isAllowedOrigin(origin) ==
  LET strings == SelectSeq(configuredOrigins, LAMBDA v : v.t = "string")
      trimmed == [i \in 1..Len(strings) |-> Trim(strings[i].s)]
      allowedOrigins ==
        {DEFAULT_ALLOWED_EXTENSION_ORIGINS[i] :
           i \in 1..Len(DEFAULT_ALLOWED_EXTENSION_ORIGINS)}
        \cup {trimmed[i] : i \in 1..Len(trimmed)}
  IN origin.s \in allowedOrigins

isAllowedOrigin(origin) ==
  LET strings == SelectSeq(configuredOrigins, LAMBDA v : v.t = "string")
      trimmed == [i \in 1..Len(strings) |-> Trim(strings[i].s)]
      normalizedConfiguredOrigins == SelectSeq(trimmed, MatchesExtensionOrigin)
      allowedOrigins ==
        {DEFAULT_ALLOWED_EXTENSION_ORIGINS[i] :
           i \in 1..Len(DEFAULT_ALLOWED_EXTENSION_ORIGINS)}
        \cup {normalizedConfiguredOrigins[i] : i \in 1..Len(normalizedConfiguredOrigins)}
  IN origin.s \in allowedOrigins

Mutant_hasTrustedClientHeader(r) ==
  r.client.t = "string" /\ ToLower(r.client.s) = ChromeExtension

hasTrustedClientHeader(r) ==
  LET headerValue == r.client
      clientValue ==
        IF headerValue.t = "array"
        THEN (IF headerValue.s = <<>> THEN Undefined ELSE Str(headerValue.s[1]))
        ELSE headerValue
  IN clientValue = Str(ChromeExtension)

\* new URL(req.url || "/", "http://localhost:<port>"): the pathname, or a throw.
ParseUrl(url) ==
  LET u == IF url = <<>> THEN <<"/">> ELSE url
      cutAt(c, x) == IF IndexOf(x, c) = 0 THEN x ELSE SubSeq(x, 1, IndexOf(x, c) - 1)
      noQuery == cutAt("#", cutAt("?", u))
  IN IF StartsWith(u, <<"/", "/">>)
     THEN (IF Len(noQuery) = 2 \/ noQuery[3] = "/" THEN [ok |-> FALSE, pathname |-> <<>>]
           ELSE [ok |-> TRUE,
                 pathname |-> LET rest == SubSeq(noQuery, 3, Len(noQuery))
                              IN IF IndexOf(rest, "/") = 0 THEN <<"/">>
                                 ELSE SubSeq(rest, IndexOf(rest, "/"), Len(rest))])
     ELSE [ok |-> TRUE, pathname |-> IF noQuery = <<>> THEN <<"/">> ELSE noQuery]

Response(status, error, origin) ==
  [status |-> status, heads |-> 1, ends |-> 1, error |-> error,
   allowOrigin |-> origin, vary |-> IF origin = Undefined THEN "" ELSE "Origin"]

Mutant_isHealthCheck(r) ==
  LET url == ParseUrl(r.url)
  IN url.ok /\ url.pathname = <<"/", "h", "e", "a", "l", "t", "h">> /\ r.method = "GET"
     /\ hasTrustedClientHeader(r)

isHealthCheck(r) ==
  LET url == ParseUrl(r.url)
  IN url.ok /\ url.pathname = <<"/", "h", "e", "a", "l", "t", "h">> /\ r.method = "GET"

Mutant_DispatchClientFirst(r) ==
  LET requestOrigin == getRequestOrigin(r)
      cors == IF Truthy(requestOrigin) THEN requestOrigin ELSE Undefined
      url == ParseUrl(r.url)
      route(h, pc) ==
        [route |-> h, pc |-> pc,
         res |-> [Response(0, "", cors) EXCEPT !.heads = 0, !.ends = 0]]
      reply(status, error, origin) ==
        [route |-> "none", pc |-> "done", res |-> Response(status, error, origin)]
  IN IF Truthy(requestOrigin) /\ ~ isAllowedOrigin(requestOrigin)
     THEN reply(403, "Forbidden origin", Undefined)
     ELSE IF r.method = "OPTIONS" THEN reply(204, "", cors)
     ELSE IF ~ url.ok THEN reply(400, "Invalid request URL", cors)
     ELSE IF ~ isHealthCheck(r) /\ ~ hasTrustedClientHeader(r)
          THEN reply(401, "Unauthorized client", cors)
     ELSE IF ~ isHealthCheck(r) /\ ~ Truthy(requestOrigin)
          THEN reply(403, "Origin header is required", cors)
     ELSE IF isHealthCheck(r)
          THEN [route |-> "health", pc |-> "done", res |-> Response(200, "", cors)]
     ELSE IF url.pathname = <<"/", "c", "h", "a", "t">> /\ r.method = "POST" THEN route("chat", "body")
     ELSE IF url.pathname = <<"/", "m", "o", "d", "e", "l", "s">> /\ r.method = "GET" THEN route("models", "await")
     ELSE IF url.pathname = <<"/", "f", "i", "l", "e">> /\ r.method = "POST" THEN route("file", "body")
     ELSE IF url.pathname = <<"/", "p", "l", "a", "y", "w", "r", "i", "g", "h", "t">> /\ r.method = "POST" THEN route("playwright", "body")
     ELSE IF url.pathname = <<"/", "p", "l", "a", "y", "w", "r", "i", "g", "h", "t", "/", "s", "t", "a", "t", "u", "s">> /\ r.method = "GET"
          THEN route("playwrightStatus", "await")
     ELSE reply(404, "Not found", cors)

Mutant_Dispatch(r) ==
  LET requestOrigin == getRequestOrigin(r)
      cors == IF Truthy(requestOrigin) THEN requestOrigin ELSE Undefined
      url == ParseUrl(r.url)
      route(h, pc) ==
        [route |-> h, pc |-> pc,
         res |-> [Response(0, "", cors) EXCEPT !.heads = 0, !.ends = 0]]
      reply(status, error, origin) ==
        [route |-> "none", pc |-> "done", res |-> Response(status, error, origin)]
  IN IF Truthy(requestOrigin) /\ ~ isAllowedOrigin(requestOrigin)
     THEN reply(403, "Forbidden origin", Undefined)
     ELSE IF ~ url.ok THEN reply(400, "Invalid request URL", cors)
     ELSE IF ~ isHealthCheck(r) /\ ~ Truthy(requestOrigin)
          THEN reply(403, "Origin header is required", cors)
     ELSE IF ~ isHealthCheck(r) /\ ~ hasTrustedClientHeader(r)
          THEN reply(401, "Unauthorized client", cors)
     ELSE IF r.method = "OPTIONS" THEN reply(204, "", cors)
     ELSE IF isHealthCheck(r)
          THEN [route |-> "health", pc |-> "done", res |-> Response(200, "", cors)]
     ELSE IF url.pathname = <<"/", "c", "h", "a", "t">> /\ r.method = "POST" THEN route("chat", "body")
     ELSE IF url.pathname = <<"/", "m", "o", "d", "e", "l", "s">> /\ r.method = "GET" THEN route("models", "await")
     ELSE IF url.pathname = <<"/", "f", "i", "l", "e">> /\ r.method = "POST" THEN route("file", "body")
     ELSE IF url.pathname = <<"/", "p", "l", "a", "y", "w", "r", "i", "g", "h", "t">> /\ r.method = "POST" THEN route("playwright", "body")
     ELSE IF url.pathname = <<"/", "p", "l", "a", "y", "w", "r", "i", "g", "h", "t", "/", "s", "t", "a", "t", "u", "s">> /\ r.method = "GET"
          THEN route("playwrightStatus", "await")
     ELSE reply(404, "Not found", cors)

\* The request handler of start() up to its first await: the response it
\* sends at once, or the route it enters.
Dispatch(r) ==
  LET requestOrigin == getRequestOrigin(r)
      cors == IF Truthy(requestOrigin) THEN requestOrigin ELSE Undefined
      url == ParseUrl(r.url)
      route(h, pc) ==
        [route |-> h, pc |-> pc,
         res |-> [Response(0, "", cors) EXCEPT !.heads = 0, !.ends = 0]]
      reply(status, error, origin) ==
        [route |-> "none", pc |-> "done", res |-> Response(status, error, origin)]
  IN IF Truthy(requestOrigin) /\ ~ isAllowedOrigin(requestOrigin)
     THEN reply(403, "Forbidden origin", Undefined)
     ELSE IF r.method = "OPTIONS" THEN reply(204, "", cors)
     ELSE IF ~ url.ok THEN reply(400, "Invalid request URL", cors)
     ELSE IF ~ isHealthCheck(r) /\ ~ Truthy(requestOrigin)
          THEN reply(403, "Origin header is required", cors)
     ELSE IF ~ isHealthCheck(r) /\ ~ hasTrustedClientHeader(r)
          THEN reply(401, "Unauthorized client", cors)
     ELSE IF isHealthCheck(r)
          THEN [route |-> "health", pc |-> "done", res |-> Response(200, "", cors)]
     ELSE IF url.pathname = <<"/", "c", "h", "a", "t">> /\ r.method = "POST" THEN route("chat", "body")
     ELSE IF url.pathname = <<"/", "m", "o", "d", "e", "l", "s">> /\ r.method = "GET" THEN route("models", "await")
     ELSE IF url.pathname = <<"/", "f", "i", "l", "e">> /\ r.method = "POST" THEN route("file", "body")
     ELSE IF url.pathname = <<"/", "p", "l", "a", "y", "w", "r", "i", "g", "h", "t">> /\ r.method = "POST" THEN route("playwright", "body")
     ELSE IF url.pathname = <<"/", "p", "l", "a", "y", "w", "r", "i", "g", "h", "t", "/", "s", "t", "a", "t", "u", "s">> /\ r.method = "GET"
          THEN route("playwrightStatus", "await")
     ELSE reply(404, "Not found", cors)

validateFileOperationRequest(request) ==
  IF request.json \notin {"object", "array"}
  THEN [ok |-> FALSE, error |-> "Invalid file operation body"]
  ELSE IF request.action \notin {Str(<<"c", "r", "e", "a", "t", "e">>), Str(<<"r", "e", "a", "d">>), Str(<<"a", "p", "p", "e", "n", "d">>), Str(<<"d", "e", "l", "e", "t", "e">>)}
  THEN [ok |-> FALSE, error |-> "Invalid action"]
  ELSE IF request.path.t # "string" THEN [ok |-> FALSE, error |-> "Invalid file path"]
  ELSE IF request.content.t \notin {"undefined", "string"}
  THEN [ok |-> FALSE, error |-> "Invalid file content"]
  ELSE [ok |-> TRUE, error |-> ""]

getParentDirectoryUri(workspaceUri, relativePath) ==
  LET segments == PathSegs(ReplaceAll(relativePath, "\\", "/"))
      parentSegments == SubSeq(segments, 1, Len(segments) - 1)
  IN IF Len(parentSegments) > 0 THEN uriJoinPath(workspaceUri, parentSegments)
     ELSE workspaceUri

FileReply(status, error, f, ops) == [status |-> status, error |-> error, fs |-> f, ops |-> ops]

\* vscode.workspace.fs.writeFile and the 200 reply (create, append).
fileWrite(f, fileUri, ops, wr) ==
  IF ~ wr.ok THEN FileReply(500, "writeFile failed", f, ops)
  ELSE FileReply(200, "", wr.fs, Append(ops, FsOp("writeFile", fileUri, wr.at)))

\* vscode.workspace.fs.createDirectory(parentDirectoryUri), then the write.
fileCreateDirectory(f, fileUri, ops, mk) ==
  IF ~ mk.ok THEN FileReply(500, "createDirectory failed", f, ops)
  ELSE fileWrite(mk.fs, fileUri, Append(ops, FsOp("createDirectory", fileUri, mk.at)),
                 fsWriteFile(mk.fs, fileUri))

\* case "create"
fileCreate(f, root, filePath, fileUri, ops) ==
  IF statSafe(f, fileUri) # NoNode /\ ~ isRegularFile(statSafe(f, fileUri))
  THEN FileReply(400, "Target path is not a file", f, ops)
  ELSE fileCreateDirectory(f, fileUri, ops,
                           fsCreateDirectory(f, getParentDirectoryUri(root, filePath)))

\* case "append": the existing content is read first when the file exists.
fileAppendRead(f, root, filePath, fileUri, ops, rd) ==
  IF ~ rd.ok THEN FileReply(500, "readFile failed", f, ops)
  ELSE fileCreateDirectory(f, fileUri, Append(ops, FsOp("readFile", fileUri, rd.at)),
                           fsCreateDirectory(f, getParentDirectoryUri(root, filePath)))

fileAppend(f, root, filePath, fileUri, ops) ==
  IF statSafe(f, fileUri) # NoNode /\ ~ isRegularFile(statSafe(f, fileUri))
  THEN FileReply(400, "Target path is not a file", f, ops)
  ELSE IF statSafe(f, fileUri) # NoNode
  THEN fileAppendRead(f, root, filePath, fileUri, ops, fsReadFile(f, fileUri))
  ELSE fileCreateDirectory(f, fileUri, ops,
                           fsCreateDirectory(f, getParentDirectoryUri(root, filePath)))

\* case "read" and case "delete": done is the readFile or the delete.
fileReadOrDelete(f, fileUri, ops, op, done) ==
  IF statSafe(f, fileUri) = NoNode THEN FileReply(404, "File not found", f, ops)
  ELSE IF ~ isRegularFile(statSafe(f, fileUri))
  THEN FileReply(400, "Target path is not a file", f, ops)
  ELSE IF ~ done.ok THEN FileReply(500, "operation failed", f, ops)
  ELSE FileReply(200, "", done.fs, Append(ops, FsOp(op, fileUri, done.at)))

\* The switch of handleFileOperation; ops holds the stat that every case
\* starts with.
fileSwitch(f, root, action, filePath, fileUri, ops) ==
  IF action = Str(<<"c", "r", "e", "a", "t", "e">>) THEN fileCreate(f, root, filePath, fileUri, ops)
  ELSE IF action = Str(<<"a", "p", "p", "e", "n", "d">>) THEN fileAppend(f, root, filePath, fileUri, ops)
  ELSE IF action = Str(<<"r", "e", "a", "d">>)
  THEN fileReadOrDelete(f, fileUri, ops, "readFile", fsReadFile(f, fileUri))
  ELSE fileReadOrDelete(f, fileUri, ops, "delete", fsDelete(f, fileUri))

\* handleFileOperation after readJsonBody
fileOperation(f, root, request) ==
  LET validation == validateFileOperationRequest(request)
      filePath == request.path
  IN IF ~ validation.ok THEN FileReply(400, validation.error, f, <<>>)
     ELSE IF root = <<>> THEN FileReply(400, "No workspace folder open", f, <<>>)
     ELSE IF ~ BridgeServer_isSafeRelativePath(filePath)
          THEN FileReply(400, "Invalid file path", f, <<>>)
     ELSE LET pathSegments == Split(ReplaceAll(filePath.s, "\\", "/"), "/")
              fileUri == uriJoinPath(root, pathSegments)
          IN IF ~ BridgeServer_isWithinWorkspace(root, fileUri)
             THEN FileReply(400, "Path escapes workspace", f, <<>>)
             ELSE fileSwitch(f, root, request.action, filePath.s, fileUri,
                             <<FsOp("stat", fileUri, Canon(f, fileUri, TRUE))>>)

(***************************************************************************)
(* The requests the gateway is given.                                      *)
(***************************************************************************)
OtherExtensionOrigin ==
  ChromeExtension \o <<":", "/", "/">> \o [i \in 1..ExtensionIdLength |-> "a"]

MalformedExtensionOrigin ==
  ChromeExtension \o <<":", "/", "/">> \o [i \in 1..ExtensionIdLength |-> "z"]

Requests ==
  [method : {"GET", "POST", "OPTIONS"},
   url : {<<"/", "h", "e", "a", "l", "t", "h">>, <<"/", "h", "e", "a", "l", "t", "h", "?", "x">>, <<"/", "c", "h", "a", "t">>, <<"/", "m", "o", "d", "e", "l", "s">>, <<"/", "f", "i", "l", "e">>, <<"/", "p", "l", "a", "y", "w", "r", "i", "g", "h", "t">>, <<"/", "p", "l", "a", "y", "w", "r", "i", "g", "h", "t", "/", "s", "t", "a", "t", "u", "s">>, <<"/", "n", "o", "p", "e">>, <<"/", "/">>},
   origin : {Undefined, Str(<<>>), Str(DEFAULT_ALLOWED_EXTENSION_ORIGINS[1]),
             Str(OtherExtensionOrigin), Str(MalformedExtensionOrigin),
             Str(<<"h", "t", "t", "p", "s", ":", "/", "/", "e", "v", "i", "l">>)},
   client : {Undefined, Str(ChromeExtension), Str(<<"C", "h", "r", "o", "m", "e", "-", "E", "x", "t", "e", "n", "s", "i", "o", "n">>)}]

OriginSettings ==
  {<<>>,
   <<Str(<<" ">> \o OtherExtensionOrigin \o <<" ">>)>>,
   <<[t |-> "number", s |-> <<>>], Str(MalformedExtensionOrigin)>>}

FileRequestPaths == {<<"a">>, <<"a", "/", "a">>, <<"a", "/", "d">>, <<"b">>, <<".", ".", "/", "o", "/", "a">>, <<"/", "o", "/", "a">>}

JsonFileRequest(action, path, content) ==
  [json |-> "object", action |-> action, path |-> path, content |-> content]

FileRequests ==
  {JsonFileRequest(Str(a), Str(p), Str(<<"x">>)) :
     a \in {<<"c", "r", "e", "a", "t", "e">>, <<"r", "e", "a", "d">>, <<"a", "p", "p", "e", "n", "d">>, <<"d", "e", "l", "e", "t", "e">>}, p \in FileRequestPaths}
  \cup {JsonFileRequest(Str(<<"m", "o", "v", "e">>), Str(<<"a">>), Undefined),
        JsonFileRequest(Str(<<"r", "e", "a", "d">>), [t |-> "number", s |-> <<>>], Undefined),
        JsonFileRequest(Str(<<"c", "r", "e", "a", "t", "e">>), Str(<<"a">>), [t |-> "number", s |-> <<>>]),
        [json |-> "null", action |-> Undefined, path |-> Undefined, content |-> Undefined],
        [json |-> "array", action |-> Undefined, path |-> Undefined, content |-> Undefined]}

maxBodyBytes == 5242880   \* const maxBodyBytes = 5 * 1024 * 1024

\* The byte lengths of the chunks a request emits.
ChunkSizes == {1, 1024 * 1024, 4 * 1024 * 1024, maxBodyBytes}

\* The chat requests that pass validateChatRequest, as far as the router
\* looks at them: provider, settings.copilot.model, settings.lmStudio.endpoint
\* and the roles of the messages.
ChatRequests ==
  [provider : {"copilot", "copilot-agent", "lm-studio"},
   model : {<<"g", "p", "t", "-", "4", "o">>, <<"G", "P", "T">>, <<"g", "e", "m", "i", "n", "i">>},
   endpoint : {<<"h", "t", "t", "p", ":", "/", "/", "h", ":", "1">>},
   messages : {<<"user">>, <<"user", "assistant", "user">>}]

ProviderChars ==
  [p \in {"copilot", "copilot-agent", "lm-studio"} |->
     IF p = "copilot" THEN <<"c", "o", "p", "i", "l", "o", "t">> ELSE IF p = "copilot-agent" THEN <<"c", "o", "p", "i", "l", "o", "t", "-", "a", "g", "e", "n", "t">>
     ELSE <<"l", "m", "-", "s", "t", "u", "d", "i", "o">>]
RoleChars ==
  [r \in {"user", "assistant", "system"} |->
     IF r = "user" THEN <<"u", "s", "e", "r">> ELSE IF r = "assistant" THEN <<"a", "s", "s", "i", "s", "t", "a", "n", "t">> ELSE <<"s", "y", "s", "t", "e", "m">>]

\* The chat models vscode.lm may have.
LanguageModels ==
  {<<>>,
   <<[id |-> <<"c", "-", "s", "o", "n", "n", "e", "t">>, family |-> <<"c", "l", "a", "u", "d", "e">>]>>,
   <<[id |-> <<"c", "-", "s", "o", "n", "n", "e", "t">>, family |-> <<"c", "l", "a", "u", "d", "e">>],
     [id |-> <<"x", "-", "g", "p", "t", "-", "4", "o">>, family |-> <<"g", "p", "t", "-", "4", "o">>]>>}

\* A JSON value of a chat body: t is its kind, an object has the listed
\* properties (a missing one is Undefined), an array its items.
JsonObject(properties) == [t |-> "object"] @@ properties
JsonArray(items) == [t |-> "array", items |-> items]
Property(v, name) ==
  IF v.t = "object" /\ name \in DOMAIN v THEN v[name] ELSE Undefined

\* typeof v === "object" for a v that is not falsy.
IsObject(v) == v.t \in {"object", "array"}

\* The parsed body of POST /chat.
ChatBody(settings, pageContent, messages, screenshot, operationMode) ==
  [json |-> "object", settings |-> settings, pageContent |-> pageContent,
   messages |-> messages, screenshot |-> screenshot, operationMode |-> operationMode]

\* The body of the loop over body.messages: the error of one item, "" if
\* it has none.
messageError(message) ==
  IF ~ IsObject(message) THEN "Invalid message item"
  ELSE IF Property(message, "role") \notin {Str(<<"u", "s", "e", "r">>), Str(<<"a", "s", "s", "i", "s", "t", "a", "n", "t">>), Str(<<"s", "y", "s", "t", "e", "m">>)}
  THEN "Invalid message role"
  ELSE IF Property(message, "content").t # "string" THEN "Invalid message content"
  ELSE ""

\* validateChatRequest, lines 362-446.  A body that is JSON null never
\* reaches it.
validateChatRequest(request) ==
  LET settings == request.settings
      provider == Property(settings, "provider")
      copilotSettings == Property(settings, "copilot")
      lmStudioSettings == Property(settings, "lmStudio")
      reject(error) == [ok |-> FALSE, error |-> error]
  IN IF request.json \notin {"object", "array"} THEN reject("Invalid chat request body")
     ELSE IF request.json = "array" \/ ~ IsObject(settings) THEN reject("Invalid chat settings")
     ELSE IF provider \notin {Str(<<"c", "o", "p", "i", "l", "o", "t">>), Str(<<"c", "o", "p", "i", "l", "o", "t", "-", "a", "g", "e", "n", "t">>), Str(<<"l", "m", "-", "s", "t", "u", "d", "i", "o">>)}
     THEN reject("Invalid provider")
     ELSE IF /\ provider \in {Str(<<"c", "o", "p", "i", "l", "o", "t">>), Str(<<"c", "o", "p", "i", "l", "o", "t", "-", "a", "g", "e", "n", "t">>)}
             /\ \/ ~ IsObject(copilotSettings)
                \/ Property(copilotSettings, "model").t # "string"
                \/ Trim(Property(copilotSettings, "model").s) = <<>>
     THEN reject("Invalid copilot settings")
     ELSE IF /\ provider = Str(<<"l", "m", "-", "s", "t", "u", "d", "i", "o">>)
             /\ \/ ~ IsObject(lmStudioSettings)
                \/ Property(lmStudioSettings, "endpoint").t # "string"
                \/ Property(lmStudioSettings, "model").t # "string"
     THEN reject("Invalid lmStudio settings")
     ELSE IF /\ provider = Str(<<"l", "m", "-", "s", "t", "u", "d", "i", "o">>)
             /\ Trim(Property(lmStudioSettings, "endpoint").s) = <<>>
     THEN reject("Invalid lmStudio endpoint")
     ELSE IF request.pageContent.t # "string" THEN reject("Invalid pageContent")
     ELSE IF request.messages.t # "array" THEN reject("Invalid messages")
     ELSE IF \E i \in 1..Len(request.messages.items) : messageError(request.messages.items[i]) # ""
     THEN reject(messageError(
            request.messages.items[
              CHOOSE i \in 1..Len(request.messages.items) :
                /\ messageError(request.messages.items[i]) # ""
                /\ \A j \in 1..(i - 1) : messageError(request.messages.items[j]) = ""]))
     ELSE IF request.screenshot.t \notin {"undefined", "string"} THEN reject("Invalid screenshot")
     ELSE IF request.operationMode \notin {Undefined, Str(<<"t", "e", "x", "t">>), Str(<<"h", "y", "b", "r", "i", "d">>), Str(<<"s", "c", "r", "e", "e", "n", "s", "h", "o", "t">>)}
     THEN reject("Invalid operationMode")
     ELSE [ok |-> TRUE, error |-> ""]

\* validation.value as the router looks at it: provider,
\* settings.copilot.model, settings.lmStudio.endpoint, the roles of messages.
chatRequestOf(request) ==
  [provider |-> IF request.settings.provider = Str(<<"c", "o", "p", "i", "l", "o", "t">>) THEN "copilot"
                ELSE IF request.settings.provider = Str(<<"c", "o", "p", "i", "l", "o", "t", "-", "a", "g", "e", "n", "t">>) THEN "copilot-agent"
                ELSE "lm-studio",
   model |-> Property(Property(request.settings, "copilot"), "model").s,
   endpoint |-> Property(Property(request.settings, "lmStudio"), "endpoint").s,
   messages |-> [i \in 1..Len(request.messages.items) |->
                   IF request.messages.items[i].role = Str(<<"u", "s", "e", "r">>) THEN "user"
                   ELSE IF request.messages.items[i].role = Str(<<"a", "s", "s", "i", "s", "t", "a", "n", "t">>) THEN "assistant"
                   ELSE "system"]]

\* The body of a chat request of ChatRequests.
JsonChatRequest(c) ==
  ChatBody(JsonObject([provider |-> Str([i \in 1..Len(ProviderChars[c.provider]) |->
                                          ProviderChars[c.provider][i]]),
                       copilot |-> JsonObject([model |-> Str(c.model)]),
                       lmStudio |-> JsonObject([endpoint |-> Str(c.endpoint),
                                                model |-> Str(<<"m">>)])]),
           Str(<<"p", "a", "g", "e">>),
           JsonArray([i \in 1..Len(c.messages) |->
                        JsonObject([role |-> Str(RoleChars[c.messages[i]]),
                                    content |-> Str(<<"h", "i">>)])]),
           Undefined, Undefined)

\* What readBody delivers, by route: no text at all, or a text that is
\* blank, is not JSON, or is JSON.
BodiesFor(route) ==
  {[kind |-> k, v |-> Null] : k \in {"tooLarge", "error", "blank", "invalid"}}
  \cup {[kind |-> "json", v |-> v] :
          v \in IF route = "file" THEN FileRequests
                ELSE IF route = "chat"
                THEN {JsonChatRequest(c) : c \in ChatRequests}
                     \cup {ChatBody(Undefined, Undefined, Undefined, Undefined, Undefined),
                           [json |-> "null"]}
                ELSE {[json |-> "object", action |-> a] :
                        a \in {"browser_click", "browser_tabs", "browser_fly",
                               "constructor", ""}}
                     \cup {[json |-> "null", action |-> ""]}}

(***************************************************************************)
(* The gateway's actions.                                                  *)
(***************************************************************************)
InitGateway ==
  /\ PathOff
  /\ ExtensionOff
  /\ FileCallsOff
  /\ RouterOff
  /\ \/ \E i \in 1..Len(Workspaces) :
          fs = Workspaces[i].nodes /\ workspaceRoot = Workspaces[i].root
     \/ fs = Workspaces[2].nodes /\ workspaceRoot = <<>>
  /\ fsOps = <<>>
  /\ configuredOrigins \in OriginSettings
  /\ gwPc = "idle"
  /\ req = Null
  /\ reqBody = Null
  /\ res = Null
  /\ bodyRead = FALSE
  /\ handler = "none"
  /\ upstreamCalls = <<>>
  /\ resWritten = <<>>
  /\ ReadOff

\* http.createServer callback, lines 95-167, up to the first await.
RequestOf(r) ==
  /\ gwPc = "idle"
  /\ LET d == Dispatch(r)
     IN /\ req' = r
        /\ res' = d.res
        /\ handler' = d.route
        /\ gwPc' = d.pc
        /\ bodyRead' = (d.pc = "body")
        /\ bodyPromise' = IF d.pc = "body" THEN "pending" ELSE "none"
  /\ UNCHANGED <<fs, workspaceRoot, fsOps, configuredOrigins, resWritten, reqBody, upstreamCalls,
                 chunks, receivedBytes, received, reqDestroyed, pathVars, extensionVars, fileVars, routerVars>>

Request == \E r \in Requests : RequestOf(r)

Reply(status, error) == [res EXCEPT !.status = status, !.heads = 1, !.ends = 1, !.error = error]

Mutant_readBody_data ==
  /\ gwPc = "body"
  /\ bodyPromise \in {"pending", "REQUEST_TOO_LARGE"}
  /\ Len(received) < MaxChunks
  /\ \E byteLength \in ChunkSizes :
       /\ received' = Append(received, byteLength)
       /\ receivedBytes' = receivedBytes + byteLength
       /\ chunks' = Append(chunks, byteLength)
       /\ IF receivedBytes + byteLength > maxBodyBytes
          THEN bodyPromise' = "REQUEST_TOO_LARGE" /\ reqDestroyed' = TRUE
          ELSE UNCHANGED <<bodyPromise, reqDestroyed>>
  /\ UNCHANGED <<fs, workspaceRoot, fsOps, configuredOrigins, resWritten, gwPc, req, reqBody, res,
                 bodyRead, handler, upstreamCalls, pathVars, extensionVars, fileVars, routerVars>>

\* readBody, req.on("data"): the chunk is counted, and pushed unless the
\* count now exceeds the cap; then the promise is rejected (which has no
\* effect on a settled promise) and the request is destroyed.
readBody_data ==
  /\ gwPc = "body"
  /\ bodyPromise \in {"pending", "REQUEST_TOO_LARGE"}
  /\ Len(received) < MaxChunks
  /\ \E byteLength \in ChunkSizes :
       /\ received' = Append(received, byteLength)
       /\ receivedBytes' = receivedBytes + byteLength
       /\ IF receivedBytes + byteLength > maxBodyBytes
          THEN /\ bodyPromise' = "REQUEST_TOO_LARGE"
               /\ reqDestroyed' = TRUE
               /\ UNCHANGED chunks
          ELSE /\ chunks' = Append(chunks, byteLength)
               /\ UNCHANGED <<bodyPromise, reqDestroyed>>
  /\ UNCHANGED <<fs, workspaceRoot, fsOps, configuredOrigins, resWritten, gwPc, req, reqBody, res,
                 bodyRead, handler, upstreamCalls, pathVars, extensionVars, fileVars, routerVars>>

\* readBody, req.on("end"): the promise is resolved with the concatenated
\* chunks.
readBody_end ==
  /\ gwPc = "body"
  /\ bodyPromise = "pending"
  /\ bodyPromise' = "resolved"
  /\ UNCHANGED <<fs, workspaceRoot, fsOps, configuredOrigins, resWritten, gwPc, req, reqBody, res,
                 bodyRead, handler, upstreamCalls, chunks, receivedBytes, received,
                 reqDestroyed, pathVars, extensionVars, fileVars, routerVars>>

\* readBody, req.on("error", reject)
readBody_error ==
  /\ gwPc = "body"
  /\ bodyPromise = "pending"
  /\ bodyPromise' = "error"
  /\ UNCHANGED <<fs, workspaceRoot, fsOps, configuredOrigins, resWritten, gwPc, req, reqBody, res,
                 bodyRead, handler, upstreamCalls, chunks, receivedBytes, received,
                 reqDestroyed, pathVars, extensionVars, fileVars, routerVars>>

Mutant_readJsonBodyReply(kind) ==
  CASE kind = "tooLarge" -> Reply(400, "Failed to read request body")
    [] kind = "error" -> Reply(400, "Failed to read request body")
    [] kind = "blank" -> Reply(400, "Request body is required")
    [] OTHER -> Reply(400, "Invalid JSON body")

\* The replies readJsonBody sends itself before it returns null.
readJsonBodyReply(kind) ==
  CASE kind = "tooLarge" -> Reply(413, "Request body too large")
    [] kind = "error" -> Reply(400, "Failed to read request body")
    [] kind = "blank" -> Reply(400, "Request body is required")
    [] OTHER -> Reply(400, "Invalid JSON body")

\* readJsonBody after await readBody: the replies of its two catch blocks
\* and of the blank-body test, or the parsed value.  JSON.parse of the text
\* null is null, which the route handlers take for "already answered": they
\* return without writing a response.
ReadJsonBody ==
  /\ gwPc = "body"
  /\ bodyPromise \notin {"none", "pending"}
  /\ \E b \in BodiesFor(handler) :
       /\ (b.kind = "tooLarge") = (bodyPromise = "REQUEST_TOO_LARGE")
       /\ (b.kind = "error") = (bodyPromise = "error")
       /\ (bodyPromise = "resolved" /\ chunks = <<>>) => b.kind = "blank"
       /\ reqBody' = b.v
       /\ IF b.kind = "json" /\ b.v.json = "null"
          THEN gwPc' = "done" /\ res' = res
          ELSE IF b.kind = "json" THEN gwPc' = "route" /\ res' = res
          ELSE /\ gwPc' = "done"
               /\ res' = readJsonBodyReply(b.kind)
       /\ IF b.kind = "json" /\ b.v.json # "null"
          THEN /\ bodyPromise' = "none"
               /\ chunks' = <<>>
               /\ receivedBytes' = 0
               /\ received' = <<>>
               /\ reqDestroyed' = FALSE
          ELSE UNCHANGED readVars
  /\ UNCHANGED <<fs, workspaceRoot, fsOps, configuredOrigins, resWritten, req, bodyRead, handler,
                 upstreamCalls, pathVars, extensionVars, fileVars, routerVars>>

\* The outcome of the handler.  Each operation is recorded with whether the
\* request path passed the path-safety gate of path-safety.ts when the
\* handler started, and whether the place it touched is inside the root.
fileHandled(out, gate, rootCanon) ==
  /\ fs' = out.fs
  /\ fsOps' = [i \in 1..Len(out.ops) |->
                 [op |-> out.ops[i].op, path |-> out.ops[i].path, at |-> out.ops[i].at,
                  gated |-> gate, inside |-> InsideRoot(rootCanon, out.ops[i].at)]]
  /\ res' = Reply(out.status, out.error)

HandleFileOperation ==
  /\ gwPc = "route" /\ handler = "file"
  /\ fileHandled(fileOperation(fs, workspaceRoot, reqBody),
                 workspaceRoot # <<>> /\ toWorkspaceFileUri(fs, workspaceRoot, reqBody.path) # Null,
                 realpathSync(fs, workspaceRoot))
  /\ gwPc' = "done"
  /\ UNCHANGED <<workspaceRoot, configuredOrigins, resWritten, req, reqBody, bodyRead, handler,
                 upstreamCalls, pathVars, extensionVars, fileVars, readVars, routerVars>>

\* One part of a message or of a response stream: a LanguageModelTextPart
\* (value), a LanguageModelToolCallPart (callId, name, input) or a
\* LanguageModelToolResultPart (callId, value).
TextPart(value) == [kind |-> "text", callId |-> 0, name |-> "", input |-> Null, value |-> value]
ToolCallPart(callId, name, input) ==
  [kind |-> "call", callId |-> callId, name |-> name, input |-> input, value |-> <<>>]
ToolResultPart(callId, value) ==
  [kind |-> "result", callId |-> callId, name |-> "", input |-> Null, value |-> value]

Base64Alphabet ==
  <<"A", "B", "C", "D", "E", "F", "G", "H", "I", "J", "K", "L", "M", "N", "O", "P">>
  \o <<"Q", "R", "S", "T", "U", "V", "W", "X", "Y", "Z", "a", "b", "c", "d", "e", "f">>
  \o <<"g", "h", "i", "j", "k", "l", "m", "n", "o", "p", "q", "r", "s", "t", "u", "v">>
  \o <<"w", "x", "y", "z", "0", "1", "2", "3", "4", "5", "6", "7", "8", "9", "+", "/">>

\* Buffer.from(base64Data, "base64"): characters outside the alphabet are
\* skipped and decoding stops at the first "="; four characters give three
\* bytes, a rest of three gives two and a rest of two gives one.
Base64Sextets(text) ==
  [i \in 1..Len(text) |-> (CHOOSE k \in 1..64 : Base64Alphabet[k] = text[i]) - 1]

RECURSIVE SextetBytes(_)
SextetBytes(s) ==
  IF Len(s) < 2 THEN <<>>
  ELSE IF Len(s) = 2 THEN <<s[1] * 4 + s[2] \div 16>>
  ELSE IF Len(s) = 3 THEN <<s[1] * 4 + s[2] \div 16, (s[2] % 16) * 16 + s[3] \div 4>>
  ELSE <<s[1] * 4 + s[2] \div 16, (s[2] % 16) * 16 + s[3] \div 4, (s[3] % 4) * 64 + s[4]>>
       \o SextetBytes(SubSeq(s, 5, Len(s)))

bufferFromBase64(base64Data) ==
  SextetBytes(Base64Sextets(
    SelectSeq(IF IndexOf(base64Data, "=") = 0 THEN base64Data
              ELSE SubSeq(base64Data, 1, IndexOf(base64Data, "=") - 1),
              LAMBDA c : \E k \in 1..64 : Base64Alphabet[k] = c)))

\* Lines 663-692: the MIME type the data URL declares (image/png without
\* one) and the base64 text, with white space removed.
declaredMimeType(normalizedScreenshot, commaIndex) ==
  IF ~ StartsWith(normalizedScreenshot, <<"d", "a", "t", "a", ":">>) \/ commaIndex = 0
     \/ Split(SubSeq(normalizedScreenshot, 6, commaIndex - 1), ";")[1] = <<>>
  THEN <<"i", "m", "a", "g", "e", "/", "p", "n", "g">>
  ELSE IF ToLower(Split(SubSeq(normalizedScreenshot, 6, commaIndex - 1), ";")[1]) = <<"i", "m", "a", "g", "e", "/", "j", "p", "g">>
  THEN <<"i", "m", "a", "g", "e", "/", "j", "p", "e", "g">>
  ELSE ToLower(Split(SubSeq(normalizedScreenshot, 6, commaIndex - 1), ";")[1])

screenshotBase64Data(normalizedScreenshot, commaIndex) ==
  SelectSeq(IF StartsWith(normalizedScreenshot, <<"d", "a", "t", "a", ":">>) /\ commaIndex # 0
            THEN SubSeq(normalizedScreenshot, commaIndex + 1, Len(normalizedScreenshot))
            ELSE normalizedScreenshot,
            LAMBDA c : ~ IsWhite(c))

\* Lines 706-733: the format the first bytes show, <<>> for none.  Reading
\* past the end of imageData gives undefined, which equals no byte.
detectedMime(imageData) ==
  LET at(i) == IF i < Len(imageData) THEN imageData[i + 1] ELSE -1
      isJpeg == at(0) = 255 /\ at(1) = 216 /\ at(2) = 255
      isPng == at(0) = 137 /\ at(1) = 80 /\ at(2) = 78 /\ at(3) = 71
      isWebp == /\ at(0) = 82 /\ at(1) = 73 /\ at(2) = 70 /\ at(3) = 70
                /\ at(8) = 87 /\ at(9) = 69 /\ at(10) = 66 /\ at(11) = 80
  IN IF isPng THEN <<"i", "m", "a", "g", "e", "/", "p", "n", "g">>
     ELSE IF isJpeg THEN <<"i", "m", "a", "g", "e", "/", "j", "p", "e", "g">>
     ELSE IF isWebp THEN <<"i", "m", "a", "g", "e", "/", "w", "e", "b", "p">>
     ELSE <<>>

\* new vscode.LanguageModelDataPart(imageData, mimeType)
DataPart(data, mimeType) ==
  [kind |-> "data", callId |-> 0, name |-> "", input |-> Str(mimeType), value |-> data]

Mutant_screenshotMessage(imageData, mimeType) ==
  IF Len(imageData) < 100 \/ detectedMime(imageData) = <<>>
  THEN [role |-> "user", parts |-> <<TextPart(<<"agentSystemPrompt">>)>>]
  ELSE [role |-> "user",
        parts |-> <<TextPart(<<"agentSystemPrompt">>), TextPart(<<"screenshotHeading">>),
                    DataPart(imageData, mimeType)>>]

\* Lines 735-773: the first message for the decoded image and the declared
\* MIME type.
screenshotMessage(imageData, mimeType) ==
  IF Len(imageData) < 100 \/ detectedMime(imageData) = <<>>
  THEN [role |-> "user", parts |-> <<TextPart(<<"agentSystemPrompt">>)>>]
  ELSE [role |-> "user",
        parts |-> <<TextPart(<<"agentSystemPrompt">>), TextPart(<<"screenshotHeading">>),
                    DataPart(imageData, detectedMime(imageData))>>]

\* Lines 660-778: the first message of chatMessages.
firstAgentMessage(screenshot) ==
  IF ~ Truthy(screenshot)
  THEN [role |-> "user", parts |-> <<TextPart(<<"agentSystemPrompt">>)>>]
  ELSE screenshotMessage(
         bufferFromBase64(screenshotBase64Data(Trim(screenshot.s),
                                               IndexOf(Trim(screenshot.s), ","))),
         declaredMimeType(Trim(screenshot.s), IndexOf(Trim(screenshot.s), ",")))

\* Lines 658-785: the first message, then the messages of the request.
agentMessages(screenshot, messages) ==
  <<firstAgentMessage(screenshot)>>
  \o [i \in 1..Len(messages) |-> [role |-> messages[i], parts |-> <<TextPart(<<"content">>)>>]]

\* The caller's AbortSignal: none, one not aborted, one already aborted.
NoSignal == [present |-> FALSE, aborted |-> FALSE]
Signals == {NoSignal, [present |-> TRUE, aborted |-> FALSE], [present |-> TRUE, aborted |-> TRUE]}

\* One value yielded by a chat generator: what it is and the text in it.
Yield(kind, text) == [kind |-> kind, text |-> text]

\* handleChat after readJsonBody, lines 262-287: validation, the 200 head,
\* and llmRouter.chat(request), called without an abort signal.
HandleChat ==
  /\ gwPc = "route" /\ handler = "chat"
  /\ IF validateChatRequest(reqBody).ok
     THEN /\ res' = [res EXCEPT !.status = 200, !.heads = 1]
          /\ upstreamCalls' = Append(upstreamCalls, "llmRouter.chat")
          /\ gwPc' = "stream"
          /\ agentPc' = "call"
          /\ chatRequest' = chatRequestOf(reqBody)
          /\ chatMessages' = agentMessages(reqBody.screenshot, chatRequestOf(reqBody).messages)
          /\ abortSignal' = NoSignal
          /\ lmModels' \in LanguageModels
          /\ iterationCount' = 0
          /\ continueLoop' = TRUE
     ELSE /\ res' = Reply(400, validateChatRequest(reqBody).error)
          /\ gwPc' = "done"
          /\ UNCHANGED <<upstreamCalls, agentPc, chatRequest, chatMessages, lmModels,
                         iterationCount, continueLoop, abortSignal>>
  /\ UNCHANGED <<fs, workspaceRoot, fsOps, configuredOrigins, resWritten, req, reqBody,
                 bodyRead, handler, pathVars, extensionVars, fileVars, readVars, toolVars, modelCalls,
                 apiCalls, chatOut, loopVars, lmPc, controller, timedOut, fetchPromise,
                 body, reader, lmOut, lmHistory>>

\* What the generator returned by chat() does when handleChat asks for its
\* next value, whichever backend is behind it: it yields a chunk, returns,
\* or throws.
stream_next ==
  /\ gwPc = "stream" /\ agentPc = "call"
  /\ Len(resWritten) = Len(chatOut)
  /\ \/ /\ Len(chatOut) < MaxChunks
        /\ chatOut' = Append(chatOut, Yield("chunk", <<>>))
        /\ UNCHANGED agentPc
     \/ agentPc' \in {"done", "threw"} /\ UNCHANGED chatOut
  /\ UNCHANGED <<fs, workspaceRoot, fsOps, pathVars, extensionVars, fileVars, gwVars, lmVars, toolVars, iterationCount,
                 continueLoop, chatMessages, modelCalls, chatRequest, lmModels, apiCalls, loopVars>>

Mutant_handleChat_stream ==
  /\ gwPc = "stream"
  /\ \/ /\ Len(resWritten) < Len(chatOut)
        /\ resWritten' = Append(resWritten, chatOut[Len(resWritten) + 1])
        /\ UNCHANGED <<gwPc, res>>
     \/ /\ Len(resWritten) = Len(chatOut) /\ agentPc = "done"
        /\ res' = [res EXCEPT !.ends = 1]
        /\ gwPc' = "done"
        /\ UNCHANGED resWritten
     \/ /\ Len(resWritten) = Len(chatOut) /\ agentPc = "threw"
        /\ res' = [res EXCEPT !.status = 500, !.error = "Internal server error", !.ends = 1]
        /\ UNCHANGED resWritten
        /\ gwPc' = "done"
  /\ UNCHANGED <<fs, workspaceRoot, fsOps, configuredOrigins, req, reqBody, bodyRead,
                 handler, upstreamCalls, pathVars, extensionVars, fileVars, readVars, routerVars>>

\* handleChat, lines 286-300: for await (const chunk of stream)
\* res.write(chunk), in the order the generator yields; res.end() when it
\* has returned; when it has thrown, the catch writes the error text and ends
\* the response.
handleChat_stream ==
  /\ gwPc = "stream"
  /\ \/ /\ Len(resWritten) < Len(chatOut)
        /\ resWritten' = Append(resWritten, chatOut[Len(resWritten) + 1])
        /\ UNCHANGED <<gwPc, res>>
     \/ /\ Len(resWritten) = Len(chatOut) /\ agentPc = "done"
        /\ res' = [res EXCEPT !.ends = 1]
        /\ gwPc' = "done"
        /\ UNCHANGED resWritten
     \/ /\ Len(resWritten) = Len(chatOut) /\ agentPc = "threw"
        /\ resWritten' = Append(resWritten, Yield("chatError", <<>>))
        /\ res' = [res EXCEPT !.ends = 1]
        /\ gwPc' = "done"
  /\ UNCHANGED <<fs, workspaceRoot, fsOps, configuredOrigins, req, reqBody, bodyRead,
                 handler, upstreamCalls, pathVars, extensionVars, fileVars, readVars, routerVars>>

\* What the service on 127.0.0.1:3001 does with a call: it answers 2xx with
\* a JSON body or with a body json() cannot parse, answers another status
\* with a body text() can or cannot read, does not answer within the 10 s
\* of fetchWithTimeout, or cannot be reached.
McpOutcomes ==
  {"mcp: 2xx", "mcp: 2xx, body is not JSON", "mcp: non-2xx",
   "mcp: non-2xx, body unreadable", "mcp: timeout", "mcp: unreachable"}

Mutant_executePlaywrightMcpAction(action, upstream) ==
  IF action \notin {"browser_click", "browser_tabs", "constructor"}
  THEN [success |-> FALSE, statusCode |-> 400, calls |-> <<>>]
  ELSE IF action = "constructor"
  THEN [success |-> FALSE, statusCode |-> 503, calls |-> <<>>]
  ELSE [success |-> upstream = "mcp: 2xx",
        statusCode |-> CASE upstream = "mcp: 2xx" -> 0
                         [] upstream = "mcp: non-2xx" -> 502
                         [] upstream = "mcp: timeout" -> 503
                         [] OTHER -> 503,
        calls |-> <<upstream>>]

\* executePlaywrightMcpAction.  mcpToolMap is an object literal, so a name
\* such as constructor finds an inherited property that is not a string:
\* mcpTool.replace throws inside the try, before fetch is called, and the
\* catch answers 503.  statusCode 0 stands for an absent statusCode.
executePlaywrightMcpAction(action, upstream) ==
  IF action \notin {"browser_click", "browser_tabs", "constructor"}
  THEN [success |-> FALSE, statusCode |-> 400, calls |-> <<>>]
  ELSE IF action = "constructor"
  THEN [success |-> FALSE, statusCode |-> 503, calls |-> <<>>]
  ELSE [success |-> upstream = "mcp: 2xx",
        statusCode |-> CASE upstream = "mcp: 2xx" -> 0
                         [] upstream = "mcp: non-2xx" -> 502
                         [] upstream = "mcp: timeout" -> 504
                         [] OTHER -> 503,
        calls |-> <<upstream>>]

\* handlePlaywrightAction after readJsonBody: validatePlaywrightRequest,
\* executePlaywrightMcpAction, and the reply.
HandlePlaywrightAction ==
  /\ gwPc = "route" /\ handler = "playwright"
  /\ IF reqBody.action = ""
     THEN res' = Reply(400, "Invalid playwright action") /\ UNCHANGED upstreamCalls
     ELSE \E upstream \in McpOutcomes :
            LET result == executePlaywrightMcpAction(reqBody.action, upstream)
            IN /\ upstreamCalls' = upstreamCalls \o result.calls
               /\ res' = Reply(IF result.success THEN 200
                               ELSE IF result.statusCode = 0 THEN 502 ELSE result.statusCode,
                               IF result.success THEN "" ELSE "MCP")
  /\ gwPc' = "done"
  /\ UNCHANGED <<fs, workspaceRoot, fsOps, configuredOrigins, resWritten, req, reqBody, bodyRead,
                 handler, pathVars, extensionVars, fileVars, readVars, routerVars>>

\* handleModels and handlePlaywrightStatus: one awaited call, then 200.
\* isPlaywrightMcpAvailable catches every error; an exception that escapes
\* handleModels reaches the catch of the request handler (lines 163-167).
HandleModelsOrStatus ==
  /\ gwPc = "await" /\ handler \in {"models", "playwrightStatus"}
  /\ \E throws \in (IF handler = "models" THEN BOOLEAN ELSE {FALSE}) :
       /\ upstreamCalls' =
            Append(upstreamCalls,
                   IF throws THEN "getAvailableModels throws"
                   ELSE IF handler = "models" THEN "getAvailableModels" ELSE "mcp")
       /\ res' = IF throws THEN Reply(500, "Internal server error") ELSE Reply(200, "")
  /\ gwPc' = "done"
  /\ UNCHANGED <<fs, workspaceRoot, fsOps, configuredOrigins, resWritten, req, reqBody, bodyRead,
                 handler, pathVars, extensionVars, fileVars, readVars, routerVars>>

\* The callback has returned and the response is finished; the server waits
\* for the next request.
RequestDone ==
  /\ gwPc = "done"
  /\ gwPc' = "idle"
  /\ req' = Null
  /\ reqBody' = Null
  /\ res' = Null
  /\ bodyRead' = FALSE
  /\ handler' = "none"
  /\ fsOps' = <<>>
  /\ upstreamCalls' = <<>>
  /\ resWritten' = <<>>
  /\ bodyPromise' = "none"
  /\ chunks' = <<>>
  /\ receivedBytes' = 0
  /\ received' = <<>>
  /\ reqDestroyed' = FALSE
  /\ agentPc' = "off"
  /\ chatRequest' = Null
  /\ lmModels' = <<>>
  /\ apiCalls' = <<>>
  /\ chatOut' = <<>>
  /\ iterationCount' = 0
  /\ continueLoop' = FALSE
  /\ chatMessages' = <<>>
  /\ modelCalls' = <<>>
  /\ abortSignal' = Null
  /\ UNCHANGED <<fs, workspaceRoot, configuredOrigins, pathVars, extensionVars, fileVars, toolVars, loopVars,
                 lmPc, controller, timedOut, fetchPromise, body, reader, lmOut, lmHistory>>

(***************************************************************************)
(* Claims about the gateway.                                               *)
(***************************************************************************)
C1_Rejected(status) ==
  /\ res.status = status
  /\ gwPc = "done"
  /\ ~ bodyRead
  /\ handler = "none"
  /\ fsOps = <<>>
  /\ upstreamCalls = <<>>

\* C1 as stated: every request that is not GET /health is answered 403 when
\* it has no Origin header and 401 when its Origin is allow-listed but the
\* client header is not exactly chrome-extension; the body is not read and
\* no route handler runs.
C1_EveryNonHealthRequest ==
  (req # Null /\ ~ isHealthCheck(req)) =>
     /\ req.origin = Undefined => C1_Rejected(403)
     /\ (Truthy(req.origin) /\ isAllowedOrigin(req.origin)
           /\ req.client # Str(ChromeExtension)) => C1_Rejected(401)

\* C1: every request that is not OPTIONS, whose URL parses and that is not
\* GET /health is answered 403 when it has no Origin header and 401 when its
\* Origin is allow-listed but the client header is not exactly
\* chrome-extension; the body is not read and no route handler runs.
C1_NonPreflightRequest ==
  (req # Null /\ req.method # "OPTIONS" /\ ParseUrl(req.url).ok /\ ~ isHealthCheck(req)) =>
     /\ req.origin = Undefined => C1_Rejected(403)
     /\ (Truthy(req.origin) /\ isAllowedOrigin(req.origin)
           /\ req.client # Str(ChromeExtension)) => C1_Rejected(401)

C1_Witness ==
  /\ req # Null
  /\ req.method = "POST"
  /\ ParseUrl(req.url).pathname = <<"/", "f", "i", "l", "e">>
  /\ req.origin = Str(OtherExtensionOrigin)
  /\ req.client = Str(<<"C", "h", "r", "o", "m", "e", "-", "E", "x", "t", "e", "n", "s", "i", "o", "n">>)
  /\ C1_Rejected(401)

\* C2 for the /file route: every read, write, directory creation or delete
\* the route performs is on a path that passes the path-safety gate
\* (toWorkspaceFileUri is not null) and lands, with links resolved, inside
\* the workspace root.
C2_FileRouteOperationsGated ==
  handler = "file" =>
    \A i \in 1..Len(fsOps) :
      fsOps[i].op \in {"readFile", "writeFile", "createDirectory", "delete"} =>
        fsOps[i].gated /\ fsOps[i].inside

(***************************************************************************)
(* llm-router.ts, chatWithLMStudio: the body of the streamed response.     *)
(* A byte is a one-character string; "C3" "A9" is the two-byte encoding of *)
(* the character written "U+E9", and "U+FFFD" is the replacement character.*)
(* A JSON payload {"choices":[{"delta":{"content":X}}]} is written {X}.    *)
(***************************************************************************)
\* TextDecoder("utf-8"): the text of bytes; with flush an incomplete
\* sequence at the end becomes U+FFFD, without it stays in the decoder.
RECURSIVE utf8Decode(_, _, _)
utf8Decode(bytes, flush, text) ==
  IF bytes = <<>> THEN [text |-> text, carry |-> <<>>]
  ELSE IF Head(bytes) = "C3"
  THEN IF Len(bytes) = 1
       THEN (IF flush THEN [text |-> Append(text, "U+FFFD"), carry |-> <<>>]
             ELSE [text |-> text, carry |-> bytes])
       ELSE IF bytes[2] = "A9"
       THEN utf8Decode(Tail(Tail(bytes)), flush, Append(text, "U+E9"))
       ELSE utf8Decode(Tail(bytes), flush, Append(text, "U+FFFD"))
  ELSE IF Head(bytes) = "A9" THEN utf8Decode(Tail(bytes), flush, Append(text, "U+FFFD"))
  ELSE utf8Decode(Tail(bytes), flush, Append(text, Head(bytes)))

\* JSON.parse(data) and parsed.choices?.[0]?.delta?.content
jsonParses(data) ==
  /\ Len(data) >= 2
  /\ data[1] = "{"
  /\ data[Len(data)] = "}"
  /\ \A i \in 2..(Len(data) - 1) : data[i] \notin {"{", "}"}

jsonContent(data) == SubSeq(data, 2, Len(data) - 1)

\* What processLine does with the payload of a data: line.
processData(data) ==
  IF data = <<"[", "D", "O", "N", "E", "]">> THEN [yield |-> <<>>, done |-> TRUE, parseError |-> 0]
  ELSE IF ~ jsonParses(data) THEN [yield |-> <<>>, done |-> FALSE, parseError |-> 1]
  ELSE IF jsonContent(data) = <<>> THEN [yield |-> <<>>, done |-> FALSE, parseError |-> 0]
  ELSE [yield |-> <<jsonContent(data)>>, done |-> FALSE, parseError |-> 0]

Mutant_processLine(line) ==
  IF ~ StartsWith(TrimEnd(line), <<"d", "a", "t", "a", ":">>)
  THEN [yield |-> <<>>, done |-> FALSE, parseError |-> 0]
  ELSE IF processData(TrimStart(SubSeq(TrimEnd(line), 6, Len(TrimEnd(line))))).parseError = 1
  THEN [yield |-> <<>>, done |-> TRUE, parseError |-> 1]
  ELSE processData(TrimStart(SubSeq(TrimEnd(line), 6, Len(TrimEnd(line)))))

processLine(line) ==
  IF ~ StartsWith(TrimEnd(line), <<"d", "a", "t", "a", ":">>)
  THEN [yield |-> <<>>, done |-> FALSE, parseError |-> 0]
  ELSE processData(TrimStart(SubSeq(TrimEnd(line), 6, Len(TrimEnd(line)))))

Mutant_afterLine(r, rest, line) ==
  [r EXCEPT !.pending = rest,
            !.yielded = @ \o line.yield,
            !.parseErrorCount = @ + line.parseError]

\* The reader's state after one line has been processed.
afterLine(r, rest, line) ==
  [r EXCEPT !.pending = rest,
            !.yielded = @ \o line.yield,
            !.streamDone = line.done,
            !.parseErrorCount = @ + line.parseError]

\* The inner while loop: one line at a time up to the last line break, or
\* up to [DONE].
RECURSIVE drainLines(_)
drainLines(r) ==
  IF r.streamDone \/ IndexOf(r.pending, "\n") = 0 THEN r
  ELSE drainLines(afterLine(r,
                            SubSeq(r.pending, IndexOf(r.pending, "\n") + 1, Len(r.pending)),
                            processLine(SubSeq(r.pending, 1, IndexOf(r.pending, "\n") - 1))))

\* if (done) { if (pending.length > 0) processLine(pending) }
flushPending(r) ==
  IF r.streamDone \/ r.pending = <<>> THEN r
  ELSE afterLine(r, r.pending, processLine(r.pending))

Mutant_appendDecoded(r, decoded) ==
  [r EXCEPT !.pending = decoded.text, !.carry = decoded.carry]

\* pending += decoder.decode(...)
appendDecoded(r, decoded) ==
  [r EXCEPT !.pending = @ \o decoded.text, !.carry = decoded.carry]

\* One turn of the outer while loop after reader.read() delivered value
\* (done = FALSE) or the end of the body (done = TRUE).
readerTurn(r, value, done) ==
  IF done THEN flushPending(drainLines(appendDecoded(r, utf8Decode(r.carry, TRUE, <<>>))))
  ELSE drainLines(appendDecoded([r EXCEPT !.pos = @ + Len(value)],
                                utf8Decode(r.carry \o value, FALSE, <<>>)))

NewReader ==
  [pos |-> 0, carry |-> <<>>, pending |-> <<>>, yielded |-> <<>>,
   streamDone |-> FALSE, parseErrorCount |-> 0]

\* The tokens of a body that arrives in one read.
WholeBodyTokens(bytes) == readerTurn(readerTurn(NewReader, bytes, FALSE), <<>>, TRUE).yielded

(***************************************************************************)
(* chatWithLMStudio: the call, the timer, the caller's abort, the fetch    *)
(* and the read loop.  The code after "await fetch" is a promise reaction: *)
(* once the promise has settled it runs before any further timer callback, *)
(* abort event or network event.                                           *)
(***************************************************************************)
\* The diagnostics the generator yields in place of tokens.
Diagnostic(kind) ==
  CASE kind = "timeout" -> <<"t", "i", "m", "e", "o", "u", "t">>
    [] kind = "connect" -> <<"c", "a", "n", "n", "o", "t", " ", "c", "o", "n", "n", "e", "c", "t">>
    [] kind = "status" -> <<"s", "t", "a", "t", "u", "s", " ", "n", "o", "t", " ", "o", "k">>
    [] kind = "noStream" -> <<"n", "o", " ", "s", "t", "r", "e", "a", "m">>

\* data {A}, data {B}, data [DONE], blank lines between
BodyAB ==
  <<"d", "a", "t", "a", ":", " ", "{", "A", "}", "\n", "\n", "d", "a", "t", "a", ":",
    " ", "{", "B", "}", "\n", "\n", "d", "a", "t", "a", ":", " ", "[", "D", "O", "N",
    "E", "]", "\n", "\n">>

\* a data line that is not JSON between two that are
BodyMalformed ==
  <<"d", "a", "t", "a", ":", " ", "{", "A", "}", "\n", "\n", "d", "a", "t", "a", ":",
    " ", "{", "x", "\n", "\n", "d", "a", "t", "a", ":", " ", "{", "B", "}", "\n", "\n",
    "d", "a", "t", "a", ":", " ", "[", "D", "O", "N", "E", "]", "\n", "\n">>

\* CRLF line ends, a two-byte character, a comment line, an empty content,
\* and a last line without line break
BodyUnterminated ==
  <<"d", "a", "t", "a", ":", "{", "C3", "A9", "}", "\r", "\n", ":", " ", "p", "i", "n",
    "g", "\r", "\n", "d", "a", "t", "a", ":", " ", "{", "}", "\r", "\n", "d", "a", "t",
    "a", ":", " ", "{", "B", "}">>

\* lines after [DONE]
BodyAfterDone ==
  <<"d", "a", "t", "a", ":", " ", "{", "A", "}", "\n", "d", "a", "t", "a", ":", " ", "[",
    "D", "O", "N", "E", "]", "\n", "d", "a", "t", "a", ":", " ", "{", "B", "}", "\n">>

Bodies == {BodyAB, BodyMalformed, BodyUnterminated, BodyAfterDone}

InitLMStudio ==
  /\ PathOff
  /\ ExtensionOff
  /\ FileCallsOff
  /\ GatewayOff
  /\ fs = Workspaces[2].nodes
  /\ workspaceRoot = Workspaces[2].root
  /\ fsOps = <<>>
  /\ AgentOff
  /\ ToolOff
  /\ lmPc = "call"
  /\ abortSignal \in {[present |-> FALSE, aborted |-> FALSE],
                      [present |-> TRUE, aborted |-> FALSE],
                      [present |-> TRUE, aborted |-> TRUE]}
  /\ controller = [aborted |-> FALSE, listener |-> FALSE, timer |-> FALSE, onAbortRuns |-> 0]
  /\ timedOut = FALSE
  /\ fetchPromise = "none"
  /\ body \in Bodies
  /\ reader = NewReader
  /\ lmOut = <<>>
  /\ lmHistory = [first |-> IF abortSignal.aborted THEN "caller" ELSE "none",
                  outAtAbort |-> -1]

\* bindAbortSignal(signal, onAbort), where onAbort aborts c; onAbortRuns
\* counts the runs of onAbort.
bindAbortSignal(signal, c) ==
  IF ~ signal.present THEN c
  ELSE IF signal.aborted THEN [c EXCEPT !.aborted = TRUE, !.onAbortRuns = @ + 1]
  ELSE [c EXCEPT !.listener = TRUE]

\* The function bindAbortSignal returns:
\* () => signal.removeEventListener("abort", handler), or a function that
\* does nothing.
unbindAbort(c) == [c EXCEPT !.listener = FALSE]

\* Lines 1148-1185: new AbortController, setTimeout, bindAbortSignal, fetch.
\* fetch with an already aborted signal returns a rejected promise.
LMCall ==
  /\ lmPc = "call"
  /\ controller' = bindAbortSignal(abortSignal, [controller EXCEPT !.timer = TRUE])
  /\ fetchPromise' = IF controller'.aborted THEN "rejectedAbort" ELSE "pending"
  /\ lmPc' = "awaitFetch"
  /\ UNCHANGED <<fs, workspaceRoot, fsOps, pathVars, extensionVars, fileVars, gwVars, agentVars, toolVars,
                 abortSignal, timedOut, body,
                 reader, lmOut, lmHistory>>

\* The reaction of "await fetch" is queued.
ContinuationQueued == lmPc = "awaitFetch" /\ fetchPromise # "pending"

\* The abort handler, bound once, runs controller.abort(): the signal is
\* aborted, a pending fetch rejects.
controllerAbort ==
  /\ controller' = [controller EXCEPT !.aborted = TRUE, !.listener = FALSE,
                                      !.onAbortRuns = @ + 1]
  /\ fetchPromise' = IF fetchPromise = "pending" THEN "rejectedAbort" ELSE fetchPromise

\* The caller aborts its signal; the listener of bindAbortSignal, if still
\* bound, runs.
CallerAbort ==
  /\ lmPc \in {"awaitFetch", "reading"}
  /\ ~ ContinuationQueued
  /\ abortSignal.present /\ ~ abortSignal.aborted
  /\ abortSignal' = [abortSignal EXCEPT !.aborted = TRUE]
  /\ IF controller.listener THEN controllerAbort
     ELSE UNCHANGED <<controller, fetchPromise>>
  /\ lmHistory' = [first |-> IF lmHistory.first = "none" THEN "caller" ELSE lmHistory.first,
                   outAtAbort |-> Len(lmOut)]
  /\ UNCHANGED <<fs, workspaceRoot, fsOps, pathVars, extensionVars, fileVars, gwVars, agentVars, toolVars,
                 lmPc, timedOut, body, reader,
                 lmOut>>

\* The setTimeout callback: timedOut = true; controller.abort()
TimerFires ==
  /\ controller.timer
  /\ ~ ContinuationQueued
  /\ timedOut' = TRUE
  /\ controller' = [controller EXCEPT !.aborted = TRUE, !.timer = FALSE]
  /\ fetchPromise' = IF fetchPromise = "pending" THEN "rejectedAbort" ELSE fetchPromise
  /\ lmHistory' = [lmHistory EXCEPT
                     !.first = IF lmHistory.first = "none" THEN "timeout" ELSE lmHistory.first]
  /\ UNCHANGED <<fs, workspaceRoot, fsOps, pathVars, extensionVars, fileVars, gwVars, agentVars, toolVars,
                 lmPc, abortSignal, body, reader,
                 lmOut>>

\* The network answers, or the connection fails.
FetchSettles ==
  /\ lmPc = "awaitFetch" /\ fetchPromise = "pending"
  /\ fetchPromise' \in {"fulfilled", "rejectedError"}
  /\ UNCHANGED <<fs, workspaceRoot, fsOps, pathVars, extensionVars, fileVars, gwVars, agentVars, toolVars,
                 lmPc, abortSignal, controller,
                 timedOut, body, reader, lmOut, lmHistory>>

Mutant_silentOnAbort(signal, timeout) == FALSE

\* catch: if (abortSignal?.aborted && !timedOut) return;
silentOnAbort(signal, timeout) == signal.present /\ signal.aborted /\ ~ timeout

Mutant_clearTimeout(c) == c

\* clearTimeout(timeoutHandle)
clearTimeout(c) == [c EXCEPT !.timer = FALSE]

\* Lines 1186-1203, 1236-1239 and the catch: the generator resumes after
\* fetch settled; the finally block of the fetch runs first.
ResumeAfterFetch ==
  /\ ContinuationQueued
  /\ controller' = clearTimeout(unbindAbort(controller))
  /\ \/ /\ fetchPromise = "fulfilled"
        /\ \E response \in {"ok", "notOk", "noBody"} :
             /\ lmPc' = IF response = "ok" THEN "reading" ELSE "ended"
             /\ lmOut' = IF response = "ok" THEN lmOut
                         ELSE IF response = "notOk" THEN Append(lmOut, Diagnostic("status"))
                         ELSE Append(lmOut, Diagnostic("noStream"))
     \/ /\ fetchPromise = "rejectedAbort"
        /\ lmPc' = "ended"
        /\ lmOut' = IF silentOnAbort(abortSignal, timedOut) THEN lmOut
                    ELSE Append(lmOut, Diagnostic("timeout"))
     \/ /\ fetchPromise = "rejectedError"
        /\ lmPc' = "ended"
        /\ lmOut' = Append(lmOut, Diagnostic("connect"))
  /\ UNCHANGED <<fs, workspaceRoot, fsOps, pathVars, extensionVars, fileVars, gwVars, agentVars, toolVars,
                 abortSignal, timedOut,
                 fetchPromise, body, reader, lmHistory>>

\* await reader.read() delivers the next bytes of the body, however many,
\* or its end; then one turn of the outer while loop.
ReaderRead ==
  /\ lmPc = "reading"
  /\ \/ /\ reader.pos = Len(body)
        /\ reader' = readerTurn(reader, <<>>, TRUE)
        /\ lmPc' = "ended"
     \/ \E n \in 1..(Len(body) - reader.pos) :
          /\ reader' = readerTurn(reader, SubSeq(body, reader.pos + 1, reader.pos + n), FALSE)
          /\ lmPc' = IF reader'.streamDone THEN "ended" ELSE "reading"
  /\ lmOut' = reader'.yielded
  /\ UNCHANGED <<fs, workspaceRoot, fsOps, pathVars, extensionVars, fileVars, gwVars, agentVars, toolVars,
                 abortSignal, controller,
                 timedOut, fetchPromise, body, lmHistory>>

\* await reader.read() rejects: the catch reports a connection failure.
ReaderFails ==
  /\ lmPc = "reading"
  /\ lmPc' = "ended"
  /\ lmOut' = Append(lmOut, Diagnostic("connect"))
  /\ UNCHANGED <<fs, workspaceRoot, fsOps, pathVars, extensionVars, fileVars, gwVars, agentVars, toolVars,
                 abortSignal, controller,
                 timedOut, fetchPromise, body, reader, lmHistory>>

NextLMStudio ==
  \/ LMCall
  \/ CallerAbort
  \/ TimerFires
  \/ FetchSettles
  \/ ResumeAfterFetch
  \/ ReaderRead
  \/ ReaderFails

SpecLMStudio == InitLMStudio /\ [][NextLMStudio]_vars

(***************************************************************************)
(* Claims about chatWithLMStudio.                                          *)
(***************************************************************************)
\* C3: once the caller's abort signal has fired while the stream is in
\* flight, the AbortController of the request is aborted and nothing more is
\* yielded.
C3_AbortStopsStream ==
  (lmPc # "off" /\ lmHistory.outAtAbort # -1) =>
     /\ controller.aborted
     /\ Len(lmOut) = lmHistory.outAtAbort

\* C4: when the generator has ended, the timeout diagnostic has not been
\* yielded if the caller's abort fired before the timer, and it is the one
\* thing yielded if the timer fired before the caller's abort.
C4_FirstCauseReported ==
  lmPc = "ended" =>
     /\ lmHistory.first = "caller" => \A i \in 1..Len(lmOut) : lmOut[i] # Diagnostic("timeout")
     /\ lmHistory.first = "timeout" => lmOut = <<Diagnostic("timeout")>>

C4_Witness ==
  /\ lmPc = "ended"
  /\ lmHistory.first = "caller"
  /\ lmHistory.outAtAbort = 0
  /\ fetchPromise = "rejectedAbort"
  /\ controller.aborted
  /\ ~ controller.timer
  /\ lmOut = <<>>

\* The generator is in or past the read loop and no read has failed.
StreamRead == lmPc \in {"reading", "ended"} /\ fetchPromise = "fulfilled" /\ lmOut = reader.yielded

\* C6: whatever the reads were, what has been yielded is a prefix of the
\* tokens of the whole body, and all of them once the stream has ended; for
\* the body A, B, [DONE] that is exactly "A" then "B".
C6_SplitIndependent ==
  StreamRead =>
     /\ Len(lmOut) <= Len(WholeBodyTokens(body))
     /\ lmOut = SubSeq(WholeBodyTokens(body), 1, Len(lmOut))
     /\ lmPc = "ended" => lmOut = WholeBodyTokens(body)
     /\ (lmPc = "ended" /\ body = BodyAB) => lmOut = <<<<"A">>, <<"B">>>>

C6_Witness ==
  /\ lmPc = "reading"
  /\ body = BodyAB
  /\ reader.pending = <<"d", "a", "t", "a", ":", " ", "{">>
  /\ lmOut = <<<<"A">>>>

\* C7: with a data line that is not JSON between two valid ones, the stream
\* goes on to its end, "A" and "B" are yielded in order, and no text of the
\* malformed line is ever yielded.
C7_MalformedLineSkipped ==
  (StreamRead /\ body = BodyMalformed) =>
     /\ \A i \in 1..Len(lmOut) : IndexOf(lmOut[i], "x") = 0
     /\ lmPc = "ended" => lmOut = <<<<"A">>, <<"B">>>> /\ reader.parseErrorCount = 1
     /\ (reader.parseErrorCount = 1 /\ ~ reader.streamDone /\ reader.pos < Len(body))
          => lmPc = "reading"

C7_Witness ==
  /\ lmPc = "ended"
  /\ body = BodyMalformed
  /\ fetchPromise = "fulfilled"
  /\ reader.parseErrorCount = 1
  /\ reader.streamDone
  /\ lmOut = <<<<"A">>, <<"B">>>>

(***************************************************************************)
(* llm-router.ts, chatWithCopilotAgent: the tool loop.                     *)
(***************************************************************************)
maxIterations == 5

Mutant_loopContinues(continue, count) == continue /\ count <= maxIterations

\* while (continueLoop && iterationCount < maxIterations)
loopContinues(continue, count) == continue /\ count < maxIterations

\* vscode.lm.selectChatModels({vendor: "copilot", family}) and, when it finds
\* nothing, the models whose id or family contains the requested name; when
\* that finds nothing either, models still holds every model.
selectModels(modelFamily, available) ==
  LET byFamily == SelectSeq(available, LAMBDA m : m.family = modelFamily)
      filtered == SelectSeq(available,
                            LAMBDA m : \/ Includes(ToLower(m.id), ToLower(modelFamily))
                                       \/ Includes(ToLower(m.family), ToLower(modelFamily)))
  IN [models |-> IF byFamily # <<>> THEN byFamily
                 ELSE IF filtered # <<>> THEN filtered ELSE available,
      calls |-> IF byFamily # <<>>
                THEN <<[api |-> "selectChatModels", arg |-> modelFamily, messages |-> <<>>]>>
                ELSE <<[api |-> "selectChatModels", arg |-> modelFamily, messages |-> <<>>],
                       [api |-> "selectChatModels", arg |-> <<"*">>, messages |-> <<>>]>>]

\* chatWithCopilot, run to its end: what it yields, the calls it makes and
\* whether an exception leaves it.  fail is what goes wrong: nothing, the
\* model lookup throwing, or sendRequest / the response stream throwing a
\* LanguageModelError or another error.
chatWithCopilot(modelFamily, messages, available, fail) ==
  LET found == selectModels(modelFamily, available)
      sendRequest ==
        [api |-> "sendRequest", arg |-> found.models[1].family,
         messages |-> <<"user">> \o [i \in 1..Len(messages) |->
                                      IF messages[i] = "user" THEN "user" ELSE "assistant"]]
  IN IF fail = "select"
     THEN [out |-> <<>>, calls |-> <<found.calls[1]>>, threw |-> TRUE]
     ELSE IF found.models = <<>>
     THEN [out |-> <<Yield("notFound", modelFamily)>>
                   \o [i \in 1..Len(available) |-> Yield("available", available[i].family)],
           calls |-> Append(found.calls,
                            [api |-> "selectChatModels", arg |-> <<"*">>, messages |-> <<>>]),
           threw |-> FALSE]
     ELSE [out |-> <<Yield("using", found.models[1].family)>>
                   \o (IF fail = "none" THEN <<Yield("chunk", <<>>)>>
                       ELSE IF fail = "LanguageModelError" THEN <<Yield("error", <<>>)>>
                       ELSE <<>>),
           calls |-> Append(found.calls, sendRequest),
           threw |-> fail = "Error"]

ChatFailures == {"none", "select", "LanguageModelError", "Error"}

\* new vscode.CancellationTokenSource(): cancel() not called, no abort
\* listener bound to it, dispose() not called.
NewTokenSource == [aborted |-> FALSE, listener |-> FALSE, disposed |-> 0, onAbortRuns |-> 0]

Mutant_finallyToken(tokenSource) ==
  [tokenSource EXCEPT !.disposed = @ + 1]

\* finally { unbindAbort(); tokenSource.dispose(); }
finallyToken(tokenSource) ==
  [unbindAbort(tokenSource) EXCEPT !.disposed = @ + 1]

\* A validated request, the models there are, and where the router starts.
ChatCalled(pc, providers) ==
  /\ PathOff
  /\ ExtensionOff
  /\ FileCallsOff
  /\ LMStudioIdle
  /\ ToolOff
  /\ LoopOff
  /\ fs = Workspaces[2].nodes
  /\ workspaceRoot = Workspaces[2].root
  /\ fsOps = <<>>
  /\ agentPc = pc
  /\ iterationCount = 0
  /\ continueLoop = TRUE
  /\ chatRequest \in {c \in ChatRequests : c.provider \in providers}
  /\ chatMessages = agentMessages(Undefined, chatRequest.messages)
  /\ lmModels \in LanguageModels
  /\ modelCalls = <<>>
  /\ apiCalls = <<>>
  /\ chatOut = <<>>

\* handleChat has sent the 200 head and called chat().
InitChat ==
  /\ ChatCalled("call", {"copilot", "copilot-agent", "lm-studio"})
  /\ abortSignal = NoSignal
  /\ configuredOrigins = <<>>
  /\ gwPc = "stream"
  /\ req = [method |-> "POST", url |-> <<"/", "c", "h", "a", "t">>,
            origin |-> Str(DEFAULT_ALLOWED_EXTENSION_ORIGINS[1]),
            client |-> Str(ChromeExtension)]
  /\ reqBody = JsonChatRequest(chatRequest)
  /\ res = [Response(200, "", req.origin) EXCEPT !.ends = 0]
  /\ bodyRead = TRUE
  /\ handler = "chat"
  /\ upstreamCalls = <<"llmRouter.chat">>
  /\ resWritten = <<>>
  /\ ReadOff

\* chatWithCopilotAgent has been called.
InitAgent == GatewayOff /\ ChatCalled("select", {"copilot-agent"}) /\ abortSignal \in Signals

Mutant_Chat ==
  /\ agentPc = "call"
  /\ IF chatRequest.provider = "copilot-agent"
     THEN agentPc' = "select" /\ UNCHANGED <<apiCalls, chatOut, tokenSources>>
     ELSE /\ apiCalls' = <<[api |-> "fetch",
                            arg |-> chatRequest.endpoint \o <<"/", "v", "1", "/", "c", "h", "a", "t", "/", "c", "o", "m", "p", "l", "e", "t", "i", "o", "n", "s">>,
                            messages |-> <<"system">> \o chatRequest.messages]>>
          /\ chatOut' \in {<<Yield("chunk", <<>>)>>, <<Yield("error", <<>>)>>}
          /\ agentPc' = "done"
          /\ UNCHANGED tokenSources
  /\ UNCHANGED <<fs, workspaceRoot, fsOps, pathVars, extensionVars, fileVars, gwVars, lmVars, toolVars, iterationCount,
                 continueLoop, chatMessages, modelCalls, chatRequest, lmModels,
                 stream, toolCalls, assistantParts, userResultParts, sendRequests>>

\* chat(): the branch on settings.provider.  chatWithCopilot runs up to its
\* sendRequest, or to its end if it makes none; chatWithLMStudio is its one
\* fetch and what it yields.
Chat ==
  /\ agentPc = "call"
  /\ IF chatRequest.provider = "copilot"
     THEN \E fail \in ChatFailures :
            LET r == chatWithCopilot(chatRequest.model, chatRequest.messages, lmModels, fail)
            IN /\ apiCalls' = r.calls
               /\ IF r.calls[Len(r.calls)].api = "sendRequest"
                  THEN /\ chatOut' = <<r.out[1]>>
                       /\ tokenSources' = Append(tokenSources,
                                                 bindAbortSignal(abortSignal, NewTokenSource))
                       /\ agentPc' = "copilot"
                  ELSE /\ chatOut' = r.out
                       /\ agentPc' = IF r.threw THEN "threw" ELSE "done"
                       /\ UNCHANGED tokenSources
     ELSE IF chatRequest.provider = "copilot-agent"
     THEN agentPc' = "select" /\ UNCHANGED <<apiCalls, chatOut, tokenSources>>
     ELSE /\ apiCalls' = <<[api |-> "fetch",
                            arg |-> chatRequest.endpoint \o <<"/", "v", "1", "/", "c", "h", "a", "t", "/", "c", "o", "m", "p", "l", "e", "t", "i", "o", "n", "s">>,
                            messages |-> <<"system">> \o chatRequest.messages]>>
          /\ chatOut' \in {<<Yield("chunk", <<>>)>>, <<Yield("error", <<>>)>>}
          /\ agentPc' = "done"
          /\ UNCHANGED tokenSources
  /\ UNCHANGED <<fs, workspaceRoot, fsOps, pathVars, extensionVars, fileVars, gwVars, lmVars, toolVars, iterationCount,
                 continueLoop, chatMessages, modelCalls, chatRequest, lmModels,
                 stream, toolCalls, assistantParts, userResultParts, sendRequests>>


\* C5: the tool loop never invokes the model more than 5 times; when every
\* round returned a tool call the loop ends after exactly 5 rounds and 5
\* invocations.
C5_AtMostFiveRounds ==
  /\ Len(SelectSeq(modelCalls, LAMBDA c : c = "agent")) <= 5
  /\ Len(SelectSeq(modelCalls, LAMBDA c : c = "agent")) = iterationCount
  /\ (agentPc = "done" /\ continueLoop /\ modelCalls # <<>>
        /\ modelCalls[Len(modelCalls)] = "agent")
       => iterationCount = 5 /\ Len(modelCalls) = 5

C5_Witness ==
  /\ agentPc = "done"
  /\ continueLoop
  /\ iterationCount = 5
  /\ modelCalls = <<"agent", "agent", "agent", "agent", "agent">>
  /\ Len(chatMessages) >= 11

(***************************************************************************)
(* llm-router.ts, executeAgentTool.  A text is a sequence of characters;   *)
(* "U+E9" is a two-byte character and "U+D800" a lone surrogate.           *)
(***************************************************************************)
\* Buffer.from(content, "utf-8"): the bytes of the text.
utf8Bytes(text) ==
  LET code(c) == CASE c = "h" -> <<104>> [] c = "e" -> <<101>> [] c = "l" -> <<108>>
                   [] c = "o" -> <<111>> [] c = "A" -> <<65>> [] c = ":" -> <<58>>
                   [] c = "U+E9" -> <<195, 169>>
                   [] c = "U+D800" -> <<239, 191, 189>>
  IN Concat([i \in 1..Len(text) |-> code(text[i])])

\* buffer.toString("base64")
RECURSIVE base64(_)
base64(bytes) ==
  IF bytes = <<>> THEN <<>>
  ELSE IF Len(bytes) = 1
  THEN <<Base64Alphabet[(bytes[1] \div 4) + 1], Base64Alphabet[(bytes[1] % 4) * 16 + 1],
         "=", "=">>
  ELSE IF Len(bytes) = 2
  THEN <<Base64Alphabet[(bytes[1] \div 4) + 1],
         Base64Alphabet[(bytes[1] % 4) * 16 + (bytes[2] \div 16) + 1],
         Base64Alphabet[(bytes[2] % 16) * 4 + 1], "=">>
  ELSE <<Base64Alphabet[(bytes[1] \div 4) + 1],
         Base64Alphabet[(bytes[1] % 4) * 16 + (bytes[2] \div 16) + 1],
         Base64Alphabet[(bytes[2] % 16) * 4 + (bytes[3] \div 64) + 1],
         Base64Alphabet[(bytes[3] % 64) + 1]>>
       \o base64(SubSeq(bytes, 4, Len(bytes)))

ToolReturn(success, result, ops, sent) ==
  [success |-> success, result |-> result, ops |-> ops, sent |-> sent]

Mutant_createFileTool(params) ==
  IF params.content.t # "string"
  THEN ToolReturn(FALSE, <<"b", "a", "d", " ", "c", "o", "n", "t", "e", "n", "t">>, <<>>, <<>>)
  ELSE ToolReturn(TRUE,
                  <<"_", "_", "D", "O", "W", "N", "L", "O", "A", "D", "_", "F", "I", "L", "E", "_", "_", ":">> \o params.path.s \o <<":">>
                    \o base64(utf8Bytes(params.content.s)) \o <<":", "_", "_", "E", "N", "D", "_", "D", "O", "W", "N", "L", "O", "A", "D", "_", "_">>,
                  <<>>, <<>>)

\* case "create_file"
createFileTool(params) ==
  IF ~ isSafeRelativePath(params.path)
  THEN ToolReturn(FALSE, <<"b", "a", "d", " ", "p", "a", "t", "h">>, <<>>, <<>>)
  ELSE IF params.content.t # "string"
  THEN ToolReturn(FALSE, <<"b", "a", "d", " ", "c", "o", "n", "t", "e", "n", "t">>, <<>>, <<>>)
  ELSE ToolReturn(TRUE,
                  <<"_", "_", "D", "O", "W", "N", "L", "O", "A", "D", "_", "F", "I", "L", "E", "_", "_", ":">> \o params.path.s \o <<":">>
                    \o base64(utf8Bytes(params.content.s)) \o <<":", "_", "_", "E", "N", "D", "_", "D", "O", "W", "N", "L", "O", "A", "D", "_", "_">>,
                  <<>>, <<>>)

\* LLMRouter.toWorkspaceFileUri
LLMRouter_toWorkspaceFileUri(f, root, relativePath) ==
  IF root = <<>> \/ relativePath.t # "string" THEN Null
  ELSE toWorkspaceFileUri(f, root, relativePath)

\* case "read_file" after the gate: readFile throws (caught by the catch of
\* executeAgentTool) or delivers the text, written here as the place it was
\* read from.
readFileTool(f, fileUri) ==
  IF fileUri = Null THEN ToolReturn(FALSE, <<"b", "a", "d", " ", "p", "a", "t", "h">>, <<>>, <<>>)
  ELSE IF ~ fsReadFile(f, fileUri.s).ok THEN ToolReturn(FALSE, <<"t", "o", "o", "l", " ", "e", "r", "r", "o", "r">>, <<>>, <<>>)
  ELSE ToolReturn(TRUE, fsReadFile(f, fileUri.s).at,
                  <<FsOp("readFile", fileUri.s, fsReadFile(f, fileUri.s).at)>>, <<>>)

Mutant_runTerminalTool(enabled, params) ==
  IF params \in {Null, Undefined} \/ params.command.t # "string"
     \/ Trim(params.command.s) = <<>>
  THEN ToolReturn(FALSE, <<"b", "a", "d", " ", "c", "o", "m", "m", "a", "n", "d">>, <<>>, <<>>)
  ELSE ToolReturn(TRUE, Trim(params.command.s), <<>>, <<Trim(params.command.s)>>)

\* case "run_terminal"
runTerminalTool(enabled, params) ==
  IF ~ enabled THEN ToolReturn(FALSE, <<"d", "i", "s", "a", "b", "l", "e", "d">>, <<>>, <<>>)
  ELSE IF params.command.t # "string" \/ Trim(params.command.s) = <<>>
  THEN ToolReturn(FALSE, <<"b", "a", "d", " ", "c", "o", "m", "m", "a", "n", "d">>, <<>>, <<>>)
  ELSE ToolReturn(TRUE, Trim(params.command.s), <<>>, <<Trim(params.command.s)>>)

\* case "browser_action"
browserActionTool(params) ==
  IF params.action.t # "string" \/ Trim(params.action.s) = <<>>
  THEN ToolReturn(FALSE, <<"b", "a", "d", " ", "a", "c", "t", "i", "o", "n">>, <<>>, <<>>)
  ELSE ToolReturn(TRUE, <<"[", "A", "C", "T", "I", "O", "N", ":", " ">> \o Trim(params.action.s) \o <<"]">>, <<>>, <<>>)

Mutant_executeAgentTool(f, root, enabled, throws, name, params) ==
  LET caught == ToolReturn(FALSE, <<>>, <<>>, <<>>)
      missing == params \in {Null, Undefined}
  IN CASE name = "create_file" -> IF missing THEN caught ELSE createFileTool(params)
       [] name = "read_file" ->
            IF missing THEN caught
            ELSE readFileTool(f, LLMRouter_toWorkspaceFileUri(f, root, params.path))
       [] name = "run_terminal" ->
            IF enabled /\ missing THEN caught
            ELSE IF throws /\ runTerminalTool(enabled, params).success THEN caught
            ELSE runTerminalTool(enabled, params)
       [] name = "browser_action" -> IF missing THEN caught ELSE browserActionTool(params)
       [] name = "search_workspace" ->
            IF missing \/ throws THEN caught
            ELSE ToolReturn(TRUE, <<"f", "i", "l", "e", "s">>, <<>>, <<>>)
       [] OTHER -> ToolReturn(FALSE, <<"u", "n", "k", "n", "o", "w", "n", " ", "t", "o", "o", "l">>, <<>>, <<>>)

\* executeAgentTool: the switch inside the try, and the catch that turns
\* whatever is thrown (a property read on null or undefined parameters, a
\* failing findFiles, readFile or createTerminal) into a ToolResult.
executeAgentTool(f, root, enabled, throws, name, params) ==
  LET caught == ToolReturn(FALSE, <<"t", "o", "o", "l", " ", "e", "r", "r", "o", "r">>, <<>>, <<>>)
      missing == params \in {Null, Undefined}
  IN CASE name = "create_file" -> IF missing THEN caught ELSE createFileTool(params)
       [] name = "read_file" ->
            IF missing THEN caught
            ELSE readFileTool(f, LLMRouter_toWorkspaceFileUri(f, root, params.path))
       [] name = "run_terminal" ->
            IF enabled /\ missing THEN caught
            ELSE IF throws /\ runTerminalTool(enabled, params).success THEN caught
            ELSE runTerminalTool(enabled, params)
       [] name = "browser_action" -> IF missing THEN caught ELSE browserActionTool(params)
       [] name = "search_workspace" ->
            IF missing \/ throws THEN caught
            ELSE ToolReturn(TRUE, <<"f", "i", "l", "e", "s">>, <<>>, <<>>)
       [] OTHER -> ToolReturn(FALSE, <<"u", "n", "k", "n", "o", "w", "n", " ", "t", "o", "o", "l">>, <<>>, <<>>)

ToolParams(path, content, command, action) ==
  [path |-> path, content |-> content, command |-> command, action |-> action]

ToolCalls ==
  {[name |-> "create_file", params |-> ToolParams(path, content, Undefined, Undefined)] :
     path \in {Str(<<"n", "o", "t", "e", "s", "/", "a", ".", "m", "d">>), Str(<<"a">>), Str(<<" ", "a", "\\", "b", " ">>), Str(<<".", ".", "/", "a">>), Str(<<"/", "e", "t", "c", "/", "x">>), Str(<<"a", "/">>), Str(<<>>),
               Undefined, [t |-> "number", s |-> <<>>]},
     content \in {Str(<<"h", "e", "l", "l", "o">>), Str(<<>>), Str(<<"A">>), Str(<<"l", "U+E9">>),
                  Str(<<"U+D800", "o">>), Str(<<"h", ":", "e", ":">>), Undefined,
                  [t |-> "number", s |-> <<>>]}}
  \cup {[name |-> "read_file", params |-> ToolParams(path, Undefined, Undefined, Undefined)] :
          path \in {Str(<<"a">>), Str(<<"a", "/", "a">>), Str(<<".", ".", "/", "o", "/", "a">>), Str(<<"b">>), Undefined}}
  \cup {[name |-> "run_terminal", params |-> ToolParams(Undefined, Undefined, command, Undefined)] :
          command \in {Str(<<" ", "l", "s", " ">>), Str(<<" ">>), Undefined}}
  \cup {[name |-> "browser_action", params |-> ToolParams(Undefined, Undefined, Undefined, action)] :
          action \in {Str(<<"b", "a", "c", "k">>), Str(<<>>), Undefined}}
  \cup {[name |-> n, params |-> ToolParams(Undefined, Undefined, Undefined, Undefined)] :
          n \in {"search_workspace", "delete_file"}}
  \cup {[name |-> n, params |-> p] :
          n \in {"create_file", "read_file", "run_terminal", "browser_action",
                 "search_workspace", "delete_file"},
          p \in {Null, Undefined}}

InitTool ==
  /\ PathOff
  /\ ExtensionOff
  /\ FileCallsOff
  /\ GatewayOff
  /\ LMStudioOff
  /\ AgentOff
  /\ \/ \E i \in {2, 5, 6} : fs = Workspaces[i].nodes /\ workspaceRoot = Workspaces[i].root
     \/ fs = Workspaces[2].nodes /\ workspaceRoot = <<>>
  /\ fsOps = <<>>
  /\ toolPc = "call"
  /\ toolCall \in ToolCalls
  /\ toolResult = Null
  /\ enableAgentTerminalTool \in BOOLEAN
  /\ terminalSent = <<>>
  /\ toolCallCount = 0
  /\ terminalsCreated = 0

toolReturned(r) ==
  /\ toolResult' = [success |-> r.success, result |-> r.result]
  /\ toolPc' = "done"
  /\ fsOps' = r.ops
  /\ terminalSent' = r.sent
  /\ terminalsCreated' = terminalsCreated + Len(r.sent)

\* One call of executeAgentTool; throws says whether the terminal or search
\* capability of the editor fails when it is used.
ExecuteAgentTool ==
  /\ toolPc = "call"
  /\ \E throws \in BOOLEAN :
       toolReturned(executeAgentTool(fs, workspaceRoot, enableAgentTerminalTool, throws,
                                     toolCall.name, toolCall.params))
  /\ toolCallCount' = toolCallCount + 1
  /\ UNCHANGED <<fs, workspaceRoot, pathVars, extensionVars, fileVars, gwVars, lmVars, agentVars, toolCall,
                 enableAgentTerminalTool>>

\* The agent loop calls executeAgentTool again for its next tool call.
NextToolCall ==
  /\ toolPc = "done"
  /\ toolCallCount < MaxToolCalls
  /\ toolCall' \in ToolCalls
  /\ toolPc' = "call"
  /\ UNCHANGED <<fs, workspaceRoot, fsOps, pathVars, extensionVars, fileVars, gwVars, lmVars, agentVars, toolResult,
                 enableAgentTerminalTool, terminalSent, toolCallCount, terminalsCreated>>

SpecTool == InitTool /\ [][ExecuteAgentTool \/ NextToolCall]_vars

(***************************************************************************)
(* llm-router.ts, chatWithCopilotAgent: the tool loop.                     *)
(***************************************************************************)
\* What the model asks for: the k-th tool-call part of a response names the
\* k-th of these calls.
AgentToolCalls ==
  <<[name |-> "browser_action", input |-> ToolParams(Undefined, Undefined, Undefined, Str(<<"b", "a", "c", "k">>))],
    [name |-> "read_file", input |-> ToolParams(Str(<<"a", "/", "a">>), Undefined, Undefined, Undefined)],
    [name |-> "delete_file", input |-> ToolParams(Undefined, Undefined, Undefined, Undefined)]>>

\* response.stream of a round in which the model asks for n tools: a text
\* part, then each tool-call part followed by a text part.  The call ids are
\* the model's and differ from call to call.
responseStream(round, n) ==
  [i \in 1..(2 * n + 1) |->
     IF i % 2 = 1 THEN TextPart(<<ToString(round), ToString(i)>>)
     ELSE ToolCallPart(10 * round + i \div 2,
                       AgentToolCalls[((i \div 2 - 1) % Len(AgentToolCalls)) + 1].name,
                       AgentToolCalls[((i \div 2 - 1) % Len(AgentToolCalls)) + 1].input)]

\* chatWithCopilotAgent, the model lookup: it throws, finds no model at all,
\* or takes the first model found, creates the token source and binds the
\* caller's signal to it.
AgentSelectModel ==
  /\ agentPc = "select"
  /\ \E throws \in BOOLEAN :
       LET found == selectModels(chatRequest.model, lmModels)
       IN IF throws
          THEN /\ apiCalls' = Append(apiCalls, found.calls[1])
               /\ agentPc' = "fallback"
               /\ UNCHANGED <<chatOut, tokenSources>>
          ELSE /\ apiCalls' = apiCalls \o found.calls
               /\ agentPc' = IF found.models = <<>> THEN "done" ELSE "loop"
               /\ chatOut' = Append(chatOut,
                                    IF found.models = <<>> THEN Yield("noAgentModel", <<>>)
                                    ELSE Yield("agentMode", found.models[1].family))
               /\ tokenSources' = IF found.models = <<>> THEN tokenSources
                                  ELSE Append(tokenSources,
                                              bindAbortSignal(abortSignal, NewTokenSource))
  /\ UNCHANGED <<fs, workspaceRoot, fsOps, pathVars, extensionVars, fileVars, gwVars, lmVars, toolVars, iterationCount,
                 continueLoop, chatMessages, modelCalls, chatRequest, lmModels,
                 stream, toolCalls, assistantParts, userResultParts, sendRequests>>

Mutant_AgentSendRequest ==
  /\ agentPc = "loop"
  /\ loopContinues(continueLoop, iterationCount)
  /\ iterationCount' = iterationCount + 1
  /\ modelCalls' = Append(modelCalls, "agent")
  /\ apiCalls' = Append(apiCalls,
                        [api |-> "sendRequest",
                         arg |-> selectModels(chatRequest.model, lmModels).models[1].family,
                         messages |-> [i \in 1..Len(chatMessages) |-> chatMessages[i].role]])
  /\ sendRequests' = Append(sendRequests,
                            [messages |-> agentMessages(Undefined, chatRequest.messages),
                             token |-> Len(tokenSources),
                             disposed |-> tokenSources[Len(tokenSources)].disposed,
                             cancelled |-> tokenSources[Len(tokenSources)].aborted,
                             running |-> toolPc = "call",
                             parts |-> <<>>])
  /\ agentPc' = "awaitModel"
  /\ UNCHANGED <<fs, workspaceRoot, fsOps, pathVars, extensionVars, fileVars, gwVars, lmVars, toolVars, continueLoop,
                 chatMessages, chatRequest, lmModels, chatOut, tokenSources,
                 stream, toolCalls, assistantParts, userResultParts>>

\* The loop head holds: iterationCount++ and
\* model.sendRequest(chatMessages, { tools }, tokenSource.token)
AgentSendRequest ==
  /\ agentPc = "loop"
  /\ loopContinues(continueLoop, iterationCount)
  /\ iterationCount' = iterationCount + 1
  /\ modelCalls' = Append(modelCalls, "agent")
  /\ apiCalls' = Append(apiCalls,
                        [api |-> "sendRequest",
                         arg |-> selectModels(chatRequest.model, lmModels).models[1].family,
                         messages |-> [i \in 1..Len(chatMessages) |-> chatMessages[i].role]])
  /\ sendRequests' = Append(sendRequests,
                            [messages |-> chatMessages,
                             token |-> Len(tokenSources),
                             disposed |-> tokenSources[Len(tokenSources)].disposed,
                             cancelled |-> tokenSources[Len(tokenSources)].aborted,
                             running |-> toolPc = "call",
                             parts |-> <<>>])
  /\ agentPc' = "awaitModel"
  /\ UNCHANGED <<fs, workspaceRoot, fsOps, pathVars, extensionVars, fileVars, gwVars, lmVars, toolVars, continueLoop,
                 chatMessages, chatRequest, lmModels, chatOut, tokenSources,
                 stream, toolCalls, assistantParts, userResultParts>>

Mutant_AgentLoopExit ==
  /\ agentPc = "loop"
  /\ ~ loopContinues(continueLoop, iterationCount)
  /\ agentPc' = "done"
  /\ UNCHANGED <<fs, workspaceRoot, fsOps, pathVars, extensionVars, fileVars, gwVars, lmVars, toolVars, iterationCount,
                 continueLoop, chatMessages, modelCalls, chatRequest, lmModels, apiCalls,
                 chatOut, loopVars>>

\* The loop head fails: finally, and the generator returns.
AgentLoopExit ==
  /\ agentPc = "loop"
  /\ ~ loopContinues(continueLoop, iterationCount)
  /\ tokenSources' = [tokenSources EXCEPT ![Len(tokenSources)] = finallyToken(@)]
  /\ agentPc' = "done"
  /\ UNCHANGED <<fs, workspaceRoot, fsOps, pathVars, extensionVars, fileVars, gwVars, lmVars, toolVars, iterationCount,
                 continueLoop, chatMessages, modelCalls, chatRequest, lmModels, apiCalls,
                 chatOut, stream, toolCalls, assistantParts, userResultParts, sendRequests>>

\* sendRequest resolves with a response; const toolCalls = [].
AgentModelResponds ==
  /\ agentPc = "awaitModel"
  /\ \E n \in 0..MaxToolCalls :
       /\ toolCallCount + n <= MaxAgentToolCalls
       /\ stream' = responseStream(iterationCount, n)
  /\ toolCalls' = <<>>
  /\ agentPc' = "stream"
  /\ UNCHANGED <<fs, workspaceRoot, fsOps, pathVars, extensionVars, fileVars, gwVars, lmVars, toolVars, iterationCount,
                 continueLoop, chatMessages, modelCalls, chatRequest, lmModels, apiCalls,
                 chatOut, assistantParts, userResultParts, sendRequests, tokenSources>>

Mutant_AgentStreamPart ==
  /\ agentPc = "stream"
  /\ stream # <<>>
  /\ stream' = Tail(stream)
  /\ sendRequests' = [sendRequests EXCEPT ![Len(sendRequests)].parts = Append(@, Head(stream))]
  /\ IF Head(stream).kind = "text"
     THEN /\ chatOut' = Append(chatOut, Yield("text", Head(stream).value))
          /\ UNCHANGED toolCalls
     ELSE /\ toolCalls' = Append(toolCalls,
                                 [callId |-> Head(stream).callId,
                                  name |-> Head(stream).name,
                                  parameters |-> Head(stream).input])
          /\ chatOut' = Append(chatOut, Yield("text", <<Head(stream).name>>))
  /\ UNCHANGED <<fs, workspaceRoot, fsOps, pathVars, extensionVars, fileVars, gwVars, lmVars, toolVars, iterationCount,
                 continueLoop, chatMessages, modelCalls, chatRequest, lmModels, apiCalls,
                 assistantParts, userResultParts, tokenSources, agentPc>>

\* for await (const part of response.stream): a text part is yielded, a
\* tool-call part is pushed to toolCalls.
AgentStreamPart ==
  /\ agentPc = "stream"
  /\ stream # <<>>
  /\ stream' = Tail(stream)
  /\ sendRequests' = [sendRequests EXCEPT ![Len(sendRequests)].parts = Append(@, Head(stream))]
  /\ IF Head(stream).kind = "text"
     THEN /\ chatOut' = Append(chatOut, Yield("text", Head(stream).value))
          /\ UNCHANGED toolCalls
     ELSE /\ toolCalls' = Append(toolCalls,
                                 [callId |-> Head(stream).callId,
                                  name |-> Head(stream).name,
                                  parameters |-> Head(stream).input])
          /\ UNCHANGED chatOut
  /\ UNCHANGED <<fs, workspaceRoot, fsOps, pathVars, extensionVars, fileVars, gwVars, lmVars, toolVars, iterationCount,
                 continueLoop, chatMessages, modelCalls, chatRequest, lmModels, apiCalls,
                 assistantParts, userResultParts, tokenSources, agentPc>>

Mutant_AgentStreamEnd ==
  /\ agentPc = "stream"
  /\ stream = <<>>
  /\ IF toolCalls = <<>>
     THEN /\ agentPc' = "loop"
          /\ UNCHANGED continueLoop
     ELSE /\ agentPc' = "tools"
          /\ UNCHANGED continueLoop
  /\ assistantParts' = <<>>
  /\ userResultParts' = <<>>
  /\ UNCHANGED <<fs, workspaceRoot, fsOps, pathVars, extensionVars, fileVars, gwVars, lmVars, toolVars, iterationCount,
                 chatMessages, modelCalls, chatRequest, lmModels, apiCalls, chatOut,
                 stream, toolCalls, sendRequests, tokenSources>>

\* The stream has ended: if (toolCalls.length === 0) continueLoop = false;
\* else const assistantParts = [], userResultParts = [].
AgentStreamEnd ==
  /\ agentPc = "stream"
  /\ stream = <<>>
  /\ IF toolCalls = <<>>
     THEN /\ continueLoop' = FALSE
          /\ agentPc' = "loop"
     ELSE /\ agentPc' = "tools"
          /\ UNCHANGED continueLoop
  /\ assistantParts' = <<>>
  /\ userResultParts' = <<>>
  /\ UNCHANGED <<fs, workspaceRoot, fsOps, pathVars, extensionVars, fileVars, gwVars, lmVars, toolVars, iterationCount,
                 chatMessages, modelCalls, chatRequest, lmModels, apiCalls, chatOut,
                 stream, toolCalls, sendRequests, tokenSources>>

\* for (const toolCall of toolCalls): the notice is yielded and
\* executeAgentTool(toolCall.name, toolCall.parameters) is called.
AgentToolStart ==
  /\ agentPc = "tools"
  /\ Len(assistantParts) < Len(toolCalls)
  /\ chatOut' = Append(chatOut, Yield("toolNotice", <<toolCalls[Len(assistantParts) + 1].name>>))
  /\ toolCall' = [name |-> toolCalls[Len(assistantParts) + 1].name,
                  params |-> toolCalls[Len(assistantParts) + 1].parameters]
  /\ toolPc' = "call"
  /\ agentPc' = "tool"
  /\ UNCHANGED <<fs, workspaceRoot, fsOps, pathVars, extensionVars, fileVars, gwVars, lmVars, iterationCount,
                 continueLoop, chatMessages, modelCalls, chatRequest, lmModels, apiCalls,
                 loopVars, toolResult, enableAgentTerminalTool, terminalSent, toolCallCount,
                 terminalsCreated>>

Mutant_AgentToolDone ==
  /\ agentPc = "tool"
  /\ toolPc = "done"
  /\ chatOut' = Append(chatOut, Yield("toolResult", toolResult.result))
  /\ assistantParts' = Append(assistantParts,
                              ToolCallPart(toolCalls[Len(assistantParts) + 1].callId,
                                           toolCalls[Len(assistantParts) + 1].name,
                                           toolCalls[Len(assistantParts) + 1].parameters))
  /\ userResultParts' = Append(userResultParts,
                               ToolResultPart(toolCalls[1].callId, toolResult.result))
  /\ toolPc' = "off"
  /\ agentPc' = "tools"
  /\ UNCHANGED <<fs, workspaceRoot, fsOps, pathVars, extensionVars, fileVars, gwVars, lmVars, iterationCount,
                 continueLoop, chatMessages, modelCalls, chatRequest, lmModels, apiCalls,
                 stream, toolCalls, sendRequests, tokenSources, toolCall, toolResult,
                 enableAgentTerminalTool, terminalSent, toolCallCount, terminalsCreated>>

\* executeAgentTool has returned: its result is yielded, the call is pushed
\* to assistantParts and the result, under the call's id, to userResultParts.
AgentToolDone ==
  /\ agentPc = "tool"
  /\ toolPc = "done"
  /\ chatOut' = Append(chatOut, Yield("toolResult", toolResult.result))
  /\ assistantParts' = Append(assistantParts,
                              ToolCallPart(toolCalls[Len(assistantParts) + 1].callId,
                                           toolCalls[Len(assistantParts) + 1].name,
                                           toolCalls[Len(assistantParts) + 1].parameters))
  /\ userResultParts' = Append(userResultParts,
                               ToolResultPart(toolCalls[Len(assistantParts) + 1].callId,
                                              toolResult.result))
  /\ toolPc' = "off"
  /\ agentPc' = "tools"
  /\ UNCHANGED <<fs, workspaceRoot, fsOps, pathVars, extensionVars, fileVars, gwVars, lmVars, iterationCount,
                 continueLoop, chatMessages, modelCalls, chatRequest, lmModels, apiCalls,
                 stream, toolCalls, sendRequests, tokenSources, toolCall, toolResult,
                 enableAgentTerminalTool, terminalSent, toolCallCount, terminalsCreated>>

Mutant_AgentPushMessages ==
  /\ agentPc = "tools"
  /\ Len(assistantParts) = Len(toolCalls)
  /\ chatMessages' = Tail(chatMessages) \o <<[role |-> "assistant", parts |-> assistantParts],
                                              [role |-> "user", parts |-> userResultParts]>>
  /\ agentPc' = "loop"
  /\ UNCHANGED <<fs, workspaceRoot, fsOps, pathVars, extensionVars, fileVars, gwVars, lmVars, toolVars, iterationCount,
                 continueLoop, modelCalls, chatRequest, lmModels, apiCalls, chatOut, loopVars>>

\* After the last tool call:
\* chatMessages.push(Assistant(assistantParts), User(userResultParts))
AgentPushMessages ==
  /\ agentPc = "tools"
  /\ Len(assistantParts) = Len(toolCalls)
  /\ chatMessages' = chatMessages \o <<[role |-> "assistant", parts |-> assistantParts],
                                        [role |-> "user", parts |-> userResultParts]>>
  /\ agentPc' = "loop"
  /\ UNCHANGED <<fs, workspaceRoot, fsOps, pathVars, extensionVars, fileVars, gwVars, lmVars, toolVars, iterationCount,
                 continueLoop, modelCalls, chatRequest, lmModels, apiCalls, chatOut, loopVars>>

\* sendRequest or the response stream throws: finally, then the catch.
AgentModelThrows ==
  /\ agentPc \in {"awaitModel", "stream"}
  /\ tokenSources' = [tokenSources EXCEPT ![Len(tokenSources)] = finallyToken(@)]
  /\ agentPc' = "fallback"
  /\ UNCHANGED <<fs, workspaceRoot, fsOps, pathVars, extensionVars, fileVars, gwVars, lmVars, toolVars, iterationCount,
                 continueLoop, chatMessages, modelCalls, chatRequest, lmModels, apiCalls,
                 chatOut, stream, toolCalls, assistantParts, userResultParts, sendRequests>>

Mutant_AgentFallback ==
  /\ agentPc = "fallback"
  /\ chatOut' = chatOut \o <<Yield("agentError", <<>>), Yield("fallback", <<>>)>>
  /\ agentPc' = "select"
  /\ UNCHANGED <<fs, workspaceRoot, fsOps, pathVars, extensionVars, fileVars, gwVars, lmVars, toolVars, iterationCount,
                 continueLoop, chatMessages, modelCalls, apiCalls, chatRequest, lmModels, loopVars>>

\* catch: the two notices, then chatWithCopilot("gpt-4o", ...) over the
\* messages of the request answers instead, with the caller's signal; it runs
\* up to its sendRequest, or to its end if it makes none.
AgentFallback ==
  /\ agentPc = "fallback"
  /\ \E fail \in ChatFailures :
       LET r == chatWithCopilot(<<"g", "p", "t", "-", "4", "o">>, chatRequest.messages, lmModels, fail)
       IN /\ apiCalls' = apiCalls \o r.calls
          /\ IF r.calls[Len(r.calls)].api = "sendRequest"
             THEN /\ chatOut' = chatOut \o <<Yield("agentError", <<>>), Yield("fallback", <<>>),
                                              r.out[1]>>
                  /\ modelCalls' = Append(modelCalls, "gpt-4o")
                  /\ tokenSources' = Append(tokenSources,
                                            bindAbortSignal(abortSignal, NewTokenSource))
                  /\ agentPc' = "copilot"
             ELSE /\ chatOut' = chatOut \o <<Yield("agentError", <<>>), Yield("fallback", <<>>)>>
                                         \o r.out
                  /\ agentPc' = IF r.threw THEN "threw" ELSE "done"
                  /\ UNCHANGED <<modelCalls, tokenSources>>
  /\ UNCHANGED <<fs, workspaceRoot, fsOps, pathVars, extensionVars, fileVars, gwVars, lmVars, toolVars, iterationCount,
                 continueLoop, chatMessages, chatRequest, lmModels,
                 stream, toolCalls, assistantParts, userResultParts, sendRequests>>

\* chatWithCopilot after its sendRequest: the chunks of response.text are
\* yielded, or sendRequest or the stream throws; finally, and the catch that
\* turns a LanguageModelError into an error text.
CopilotResponse ==
  /\ agentPc = "copilot"
  /\ \E fail \in ChatFailures \ {"select"} :
       LET r == chatWithCopilot(IF chatRequest.provider = "copilot" THEN chatRequest.model
                                ELSE <<"g", "p", "t", "-", "4", "o">>,
                                chatRequest.messages, lmModels, fail)
       IN /\ chatOut' = chatOut \o Tail(r.out)
          /\ agentPc' = IF r.threw THEN "threw" ELSE "done"
  /\ tokenSources' = [tokenSources EXCEPT ![Len(tokenSources)] = finallyToken(@)]
  /\ UNCHANGED <<fs, workspaceRoot, fsOps, pathVars, extensionVars, fileVars, gwVars, lmVars, toolVars, iterationCount,
                 continueLoop, chatMessages, modelCalls, chatRequest, lmModels, apiCalls,
                 stream, toolCalls, assistantParts, userResultParts, sendRequests>>

\* The caller aborts its signal: the handler bound by bindAbortSignal, if it
\* is still bound, runs tokenSource.cancel() and, bound once, is removed.
AgentCallerAbort ==
  /\ agentPc # "off"
  /\ abortSignal.present /\ ~ abortSignal.aborted
  /\ abortSignal' = [abortSignal EXCEPT !.aborted = TRUE]
  /\ tokenSources' = [i \in 1..Len(tokenSources) |->
                        IF tokenSources[i].listener
                        THEN [tokenSources[i] EXCEPT !.aborted = TRUE, !.listener = FALSE,
                                                     !.onAbortRuns = @ + 1]
                        ELSE tokenSources[i]]
  /\ UNCHANGED <<fs, workspaceRoot, fsOps, pathVars, extensionVars, fileVars, gwVars, toolVars, iterationCount,
                 continueLoop, chatMessages, modelCalls, chatRequest, lmModels, apiCalls,
                 chatOut, stream, toolCalls, assistantParts, userResultParts, sendRequests,
                 agentPc, lmPc, controller, timedOut, fetchPromise, body, reader, lmOut,
                 lmHistory>>

NextAgent ==
  \/ AgentSelectModel
  \/ AgentSendRequest
  \/ AgentLoopExit
  \/ AgentModelResponds
  \/ AgentStreamPart
  \/ AgentStreamEnd
  \/ AgentToolStart
  \/ ExecuteAgentTool
  \/ AgentToolDone
  \/ AgentPushMessages
  \/ AgentModelThrows
  \/ AgentFallback
  \/ CopilotResponse

SpecAgent == InitAgent /\ [][NextAgent \/ AgentCallerAbort]_vars

\* Each of the three generators of chat(), called with any caller's signal.
InitAbort ==
  \/ InitLMStudio
  \/ GatewayOff /\ ChatCalled("call", {"copilot", "copilot-agent"}) /\ abortSignal \in Signals

SpecAbort ==
  InitAbort /\ [][\/ lmPc # "off" /\ NextLMStudio
                  \/ agentPc # "off" /\ (Chat \/ NextAgent \/ AgentCallerAbort)]_vars

\* The router behind /chat: the generator runs only while handleChat waits
\* for its next value.
SpecChat ==
  InitChat /\ [][\/ Len(resWritten) = Len(chatOut) /\ (Chat \/ NextAgent)
                 \/ handleChat_stream]_vars

NextGateway ==
  \/ Request
  \/ RequestDone
  \/ readBody_data
  \/ readBody_end
  \/ readBody_error
  \/ ReadJsonBody
  \/ HandleFileOperation
  \/ HandlePlaywrightAction
  \/ HandleModelsOrStatus
  \/ HandleChat
  \/ stream_next
  \/ handleChat_stream

SpecGateway == InitGateway /\ [][NextGateway]_vars

(***************************************************************************)
(* Claims about executeAgentTool.                                          *)
(***************************************************************************)
\* The bytes a base64 text stands for.
RECURSIVE C8_Decode(_)
C8_Decode(b64) ==
  IF Len(b64) < 4 THEN <<>>
  ELSE LET v(k) == IF b64[k] = "=" THEN 0
                   ELSE (CHOOSE n \in 1..64 : Base64Alphabet[n] = b64[k]) - 1
           n24 == v(1) * 262144 + v(2) * 4096 + v(3) * 64 + v(4)
           three == <<n24 \div 65536, (n24 \div 256) % 256, n24 % 256>>
           kept == IF b64[3] = "=" THEN 1 ELSE IF b64[4] = "=" THEN 2 ELSE 3
       IN SubSeq(three, 1, kept) \o C8_Decode(SubSeq(b64, 5, Len(b64)))

\* The result is __DOWNLOAD_FILE__:<path>:<base64>:__END_DOWNLOAD__ for the
\* given path and a base64 text that stands for the bytes of the content.
C8_DownloadResult(result, path, content) ==
  LET head == <<"_", "_", "D", "O", "W", "N", "L", "O", "A", "D", "_", "F", "I", "L", "E", "_", "_", ":">> \o path \o <<":">>
      tail == <<":", "_", "_", "E", "N", "D", "_", "D", "O", "W", "N", "L", "O", "A", "D", "_", "_">>
      b64 == SubSeq(result, Len(head) + 1, Len(result) - Len(tail))
  IN /\ Len(result) >= Len(head) + Len(tail)
     /\ SubSeq(result, 1, Len(head)) = head
     /\ SubSeq(result, Len(result) - Len(tail) + 1, Len(result)) = tail
     /\ Len(b64) % 4 = 0
     /\ \A i \in 1..Len(b64) : b64[i] = "=" \/ \E n \in 1..64 : Base64Alphabet[n] = b64[i]
     /\ C8_Decode(b64) = utf8Bytes(content)
     /\ content = <<"h", "e", "l", "l", "o">> => b64 = <<"a", "G", "V", "s", "b", "G", "8", "=">>

\* C8: create_file with a safe relative path and a string content returns
\* success and the download marker with the path and the base64 text of the
\* content; with any other path or content it returns success = false; in
\* both cases nothing is done to the filesystem or the terminal.
C8_CreateFileReturnsDownload ==
  (toolPc = "done" /\ toolCall.name = "create_file") =>
     /\ fsOps = <<>>
     /\ terminalSent = <<>>
     /\ IF /\ toolCall.params \notin {Null, Undefined}
           /\ isSafeRelativePath(toolCall.params.path)
           /\ toolCall.params.content.t = "string"
        THEN /\ toolResult.success
             /\ C8_DownloadResult(toolResult.result, toolCall.params.path.s,
                                  toolCall.params.content.s)
        ELSE ~ toolResult.success

C8_Witness ==
  /\ toolPc = "done"
  /\ toolCall.name = "create_file"
  /\ toolCall.params \notin {Null, Undefined}
  /\ toolCall.params.path = Str(<<"n", "o", "t", "e", "s", "/", "a", ".", "m", "d">>)
  /\ toolCall.params.content = Str(<<"h", "e", "l", "l", "o">>)
  /\ toolResult.success
  /\ toolResult.result = <<"_", "_", "D", "O", "W", "N", "L", "O", "A", "D", "_", "F", "I", "L", "E", "_", "_", ":", "n", "o", "t", "e", "s", "/", "a", ".", "m", "d", ":", "a", "G", "V", "s", "b", "G", "8", "=", ":", "_", "_", "E", "N", "D", "_", "D", "O", "W", "N", "L", "O", "A", "D", "_", "_">>
  /\ fsOps = <<>>

(***************************************************************************)
(* server.ts as it was before origins were checked: the request handler    *)
(* that answers every request with Access-Control-Allow-Origin: *.         *)
(***************************************************************************)
\* http.createServer callback of that BridgeServer.start(): the headers are
\* set first; new URL() is outside the try, so a URL that does not parse
\* ends the callback with no response written.  A route handler is
\* represented by the status it sends (500 from the catch).
BridgeServer_start ==
  /\ gwPc = "idle"
  /\ \E r \in Requests :
       LET url == ParseUrl(r.url)
           route == IF r.method = "OPTIONS" THEN "none"
                    ELSE IF ~ url.ok THEN "none"
                    ELSE IF url.pathname = <<"/", "h", "e", "a", "l", "t", "h">> /\ r.method = "GET" THEN "health"
                    ELSE IF url.pathname = <<"/", "c", "h", "a", "t">> /\ r.method = "POST" THEN "chat"
                    ELSE IF url.pathname = <<"/", "m", "o", "d", "e", "l", "s">> /\ r.method = "GET" THEN "models"
                    ELSE IF url.pathname = <<"/", "f", "i", "l", "e">> /\ r.method = "POST" THEN "file"
                    ELSE IF url.pathname = <<"/", "p", "l", "a", "y", "w", "r", "i", "g", "h", "t">> /\ r.method = "POST" THEN "playwright"
                    ELSE IF url.pathname = <<"/", "p", "l", "a", "y", "w", "r", "i", "g", "h", "t", "/", "s", "t", "a", "t", "u", "s">> /\ r.method = "GET"
                    THEN "playwrightStatus"
                    ELSE "none"
           statuses == IF r.method = "OPTIONS" THEN {204}
                       ELSE IF ~ url.ok THEN {0}
                       ELSE CASE route = "health" -> {200}
                              [] route = "playwrightStatus" -> {200}
                              [] route = "file" -> {200, 400, 500}
                              [] route = "none" -> {404}
                              [] OTHER -> {200, 500}
       IN \E status \in statuses :
            /\ req' = r
            /\ handler' = route
            /\ bodyRead' = (route \in {"chat", "file", "playwright"})
            /\ res' = [status |-> status,
                       heads |-> IF status = 0 THEN 0 ELSE 1,
                       ends |-> IF status = 0 THEN 0 ELSE 1,
                       error |-> "",
                       allowOrigin |-> Str(<<"*">>), vary |-> ""]
  /\ gwPc' = "done"
  /\ UNCHANGED <<fs, workspaceRoot, fsOps, configuredOrigins, resWritten, reqBody, upstreamCalls,
                 pathVars, extensionVars, fileVars, readVars, routerVars>>

SpecBridgeServer == InitGateway /\ [][BridgeServer_start \/ RequestDone]_vars

\* C11: a response to a request whose Origin is allow-listed carries
\* Access-Control-Allow-Origin equal to that origin and Vary: Origin, and no
\* response carries Access-Control-Allow-Origin: *.
C11_AllowOriginIsRequestOrigin ==
  (req # Null /\ res # Null) =>
     /\ res.allowOrigin # Str(<<"*">>)
     /\ (Truthy(req.origin) /\ isAllowedOrigin(req.origin) /\ res.heads = 1) =>
           (res.allowOrigin = req.origin /\ res.vary = "Origin")

C13_Authenticated(r) ==
  Truthy(r.origin) /\ isAllowedOrigin(r.origin) /\ r.client = Str(ChromeExtension)

C13_DefinedRoute(r) ==
  ParseUrl(r.url).ok /\
  <<r.method, ParseUrl(r.url).pathname>> \in
    {<<"GET", <<"/", "h", "e", "a", "l", "t", "h">>>>, <<"POST", <<"/", "c", "h", "a", "t">>>>, <<"GET", <<"/", "m", "o", "d", "e", "l", "s">>>>,
     <<"POST", <<"/", "f", "i", "l", "e">>>>, <<"POST", <<"/", "p", "l", "a", "y", "w", "r", "i", "g", "h", "t">>>>, <<"GET", <<"/", "p", "l", "a", "y", "w", "r", "i", "g", "h", "t", "/", "s", "t", "a", "t", "u", "s">>>>}

C13_NoRouteAction == upstreamCalls = <<>> /\ fsOps = <<>>

\* The body and exception parts of C13: on /chat, /file and /playwright a
\* body over the cap is answered 413 and an empty or unparsable body 400,
\* with no route action; an exception escaping a handler is answered 500.
C13_BodyErrors ==
  /\ (handler \in {"chat", "file", "playwright"} /\ bodyPromise = "REQUEST_TOO_LARGE"
        /\ gwPc = "done") =>
       (res.status = 413 /\ res.ends = 1 /\ C13_NoRouteAction)
  /\ (handler \in {"chat", "file", "playwright"} /\ bodyPromise = "resolved"
        /\ gwPc = "done" /\ reqBody = Null) =>
       (res.status = 400 /\ res.ends = 1 /\ C13_NoRouteAction)
  /\ (gwPc = "route") => (reqBody # Null /\ res.heads = 0)
  /\ (gwPc = "done" /\ upstreamCalls = <<"getAvailableModels throws">>) =>
       (res.status = 500 /\ res.ends = 1)

\* C13 as stated: for authenticated requests, the body errors above, and
\* any path/method pair that is not a defined route is answered 404.
C13_UndefinedRouteIs404 ==
  (req # Null /\ C13_Authenticated(req)) =>
     /\ C13_BodyErrors
     /\ ~ C13_DefinedRoute(req) => (gwPc = "done" /\ res.status = 404)

\* C13: for authenticated requests, the body errors above, and any request
\* other than OPTIONS whose URL parses and whose path/method pair is not a
\* defined route is answered 404 (OPTIONS is answered 204 and a URL that
\* does not parse 400).
C13_UndefinedRouteIs404UnlessPreflight ==
  (req # Null /\ C13_Authenticated(req)) =>
     /\ C13_BodyErrors
     /\ (~ C13_DefinedRoute(req) /\ req.method # "OPTIONS" /\ ParseUrl(req.url).ok) =>
          (gwPc = "done" /\ res.status = 404 /\ C13_NoRouteAction)
     /\ req.method = "OPTIONS" => res.status = 204
     /\ (req.method # "OPTIONS" /\ ~ ParseUrl(req.url).ok) => res.status = 400

C13_Witness ==
  /\ req # Null
  /\ C13_Authenticated(req)
  /\ handler = "chat"
  /\ bodyPromise = "REQUEST_TOO_LARGE"
  /\ receivedBytes > maxBodyBytes
  /\ gwPc = "done"
  /\ res.status = 413

RECURSIVE C14_Sum(_)
C14_Sum(sizes) == IF sizes = <<>> THEN 0 ELSE sizes[1] + C14_Sum(Tail(sizes))

\* C14: readBody never holds more than 5 MiB; the chunks it holds are the
\* chunks received before the cumulative count first exceeded the cap; once
\* the count exceeds the cap the promise is rejected with REQUEST_TOO_LARGE
\* and the request is destroyed; a body of at most 5 MiB, exactly 5 MiB
\* included, is held whole and not rejected for its size.
C14_BufferWithinCap ==
  /\ C14_Sum(chunks) <= maxBodyBytes
  /\ receivedBytes = C14_Sum(received)
  /\ Len(chunks) <= Len(received)
  /\ chunks = SubSeq(received, 1, Len(chunks))
  /\ Len(chunks) < Len(received) =>
       C14_Sum(chunks) + received[Len(chunks) + 1] > maxBodyBytes
  /\ IF receivedBytes > maxBodyBytes
     THEN bodyPromise = "REQUEST_TOO_LARGE" /\ reqDestroyed
     ELSE chunks = received /\ bodyPromise # "REQUEST_TOO_LARGE" /\ ~ reqDestroyed

C14_Witness ==
  /\ received = <<4 * 1024 * 1024, 1024 * 1024, 1>>
  /\ chunks = <<4 * 1024 * 1024, 1024 * 1024>>
  /\ bodyPromise = "REQUEST_TOO_LARGE"
  /\ reqDestroyed

\* C15: every call of executeAgentTool, whatever the tool name, the
\* parameters (missing, null or wrongly typed ones included) and the
\* failures of the filesystem, search or terminal capability, returns a
\* ToolResult; a failure has success = false and a message; an unrecognized
\* tool name returns success = false and nothing is read, written or sent.
C15_AlwaysToolResult ==
  /\ toolPc \in {"off", "call", "done"}
  /\ toolPc = "done" =>
       /\ toolResult.success \in BOOLEAN
       /\ ~ toolResult.success => toolResult.result # <<>>
       /\ toolCall.params \in {Null, Undefined} => ~ toolResult.success
       /\ toolCall.name \notin {"search_workspace", "read_file", "create_file",
                                "run_terminal", "browser_action"} =>
            (~ toolResult.success /\ fsOps = <<>> /\ terminalSent = <<>>)

C15_Witness ==
  /\ toolPc = "done"
  /\ toolCall.name = "read_file"
  /\ toolCall.params = Null
  /\ ~ toolResult.success
  /\ toolResult.result = <<"t", "o", "o", "l", " ", "e", "r", "r", "o", "r">>
  /\ toolCallCount = 2

\* C16: run_terminal sends a command to a terminal only when
\* enableAgentTerminalTool is true and the command is a string that is not
\* blank; when the flag is false every run_terminal call returns
\* success = false and no terminal is created by any sequence of calls.
C16_TerminalOnlyWhenEnabled ==
  /\ terminalsCreated > 0 => enableAgentTerminalTool
  /\ toolPc = "done" =>
       /\ terminalSent # <<>> =>
            /\ enableAgentTerminalTool
            /\ toolCall.name = "run_terminal"
            /\ toolCall.params \notin {Null, Undefined}
            /\ toolCall.params.command.t = "string"
            /\ Trim(toolCall.params.command.s) # <<>>
            /\ terminalSent = <<Trim(toolCall.params.command.s)>>
       /\ (toolCall.name = "run_terminal" /\ ~ enableAgentTerminalTool) =>
            (~ toolResult.success /\ terminalSent = <<>>)

C16_Witness ==
  /\ toolPc = "done"
  /\ toolCallCount = 2
  /\ toolCall.name = "run_terminal"
  /\ toolCall.params \notin {Null, Undefined}
  /\ toolCall.params.command = Str(<<" ", "l", "s", " ">>)
  /\ ~ enableAgentTerminalTool
  /\ ~ toolResult.success
  /\ terminalsCreated = 0

(***************************************************************************)
(* Claims about chat(), chatWithCopilot and the agent fallback.            *)
(***************************************************************************)
C17_Notices == <<Yield("agentError", <<>>), Yield("fallback", <<>>)>>

\* The last n elements of a sequence.
C17_Last(seq, n) == SubSeq(seq, Len(seq) - n + 1, Len(seq))

\* C17: once agent mode has failed and the request is over, the output ends
\* with the error notice, the fallback notice and the output of one run of
\* chatWithCopilot for "gpt-4o" over the messages of the request, whose calls
\* are the last calls made; the fallback notice appears at most once; and an
\* agent request never ends with nothing yielded.
C17_FallbackOnceWithDefaultModel ==
  /\ Len(SelectSeq(chatOut, LAMBDA y : y.kind = "fallback")) <= 1
  /\ (agentPc \in {"done", "threw"} /\ chatRequest.provider = "copilot-agent") =>
       /\ chatOut # <<>>
       /\ (\E i \in 1..Len(chatOut) : chatOut[i].kind = "agentError") =>
            \E fail \in ChatFailures :
              LET r == chatWithCopilot(<<"g", "p", "t", "-", "4", "o">>, chatRequest.messages, lmModels, fail)
              IN /\ Len(chatOut) >= 2 + Len(r.out)
                 /\ C17_Last(chatOut, 2 + Len(r.out)) = C17_Notices \o r.out
                 /\ Len(apiCalls) >= Len(r.calls)
                 /\ C17_Last(apiCalls, Len(r.calls)) = r.calls
                 /\ r.threw = (agentPc = "threw")
  /\ agentPc \notin {"fallback", "copilot", "done", "threw"} =>
       \A i \in 1..Len(chatOut) : chatOut[i].kind # "agentError"

C17_Witness ==
  /\ agentPc = "done"
  /\ chatRequest.provider = "copilot-agent"
  /\ chatRequest.model = <<"g", "e", "m", "i", "n", "i">>
  /\ iterationCount = 2
  /\ \E i \in 1..Len(chatOut) : chatOut[i].kind = "agentError"
  /\ apiCalls[Len(apiCalls)] =
       [api |-> "sendRequest", arg |-> <<"g", "p", "t", "-", "4", "o">>, messages |-> <<"user", "user", "assistant", "user">>]

\* C18: when chatWithCopilot has looked the models up and none has the
\* requested family and none contains the requested name in its id or
\* family, it yields the "model not found" diagnostic and the list of the
\* available models, sends no completion request, and no exception leaves it.
C18_NotFoundDiagnostic ==
  (chatRequest # Null /\ chatRequest.provider = "copilot" /\ agentPc \in {"done", "threw"}
     /\ Len(apiCalls) >= 2
     /\ \A i \in 1..Len(lmModels) :
          /\ lmModels[i].family # chatRequest.model
          /\ ~ Includes(ToLower(lmModels[i].id), ToLower(chatRequest.model))
          /\ ~ Includes(ToLower(lmModels[i].family), ToLower(chatRequest.model))) =>
       /\ agentPc = "done"
       /\ chatOut = <<Yield("notFound", chatRequest.model)>>
                    \o [i \in 1..Len(lmModels) |-> Yield("available", lmModels[i].family)]
       /\ \A i \in 1..Len(apiCalls) : apiCalls[i].api # "sendRequest"

\* C19: with provider lm-studio the only call made is the fetch of
\* {endpoint}/v1/chat/completions and vscode.lm and its models are never
\* called; with provider copilot or copilot-agent fetch is never called, on
\* the agent fallback path included.
C19_OnlySelectedBackend ==
  chatRequest # Null =>
    /\ chatRequest.provider = "lm-studio" =>
         /\ \A i \in 1..Len(apiCalls) :
              /\ apiCalls[i].api = "fetch"
              /\ apiCalls[i].arg = chatRequest.endpoint \o <<"/", "v", "1", "/", "c", "h", "a", "t", "/", "c", "o", "m", "p", "l", "e", "t", "i", "o", "n", "s">>
         /\ agentPc = "done" => Len(apiCalls) = 1
         /\ modelCalls = <<>>
    /\ chatRequest.provider \in {"copilot", "copilot-agent"} =>
         /\ \A i \in 1..Len(apiCalls) : apiCalls[i].api \in {"selectChatModels", "sendRequest"}
         /\ (agentPc = "done" /\ chatOut[Len(chatOut)].kind \in {"chunk", "error"}) =>
              apiCalls[Len(apiCalls)].api = "sendRequest"

C19_Witness ==
  /\ agentPc = "done"
  /\ chatRequest.provider = "copilot-agent"
  /\ \E i \in 1..Len(chatOut) : chatOut[i].kind = "fallback"
  /\ Len(SelectSeq(apiCalls, LAMBDA c : c.api = "sendRequest")) = 3
  /\ \A i \in 1..Len(apiCalls) : apiCalls[i].api # "fetch"

C20_Handled ==
  /\ req # Null
  /\ handler = "playwright"
  /\ gwPc = "done"
  /\ reqBody # Null
  /\ reqBody.json = "object"

\* The parts of C20 that do not depend on reading the upstream body: an
\* action that is not a key of mcpToolMap is rejected (400, or 503 for a name
\* inherited from Object.prototype) with no upstream call; a timeout is
\* answered 504 and an unreachable upstream 503, after one upstream call.
C20_RejectedOrFailed ==
  C20_Handled =>
    /\ reqBody.action \notin {"browser_click", "browser_tabs"} =>
         (res.status \in {400, 503} /\ upstreamCalls = <<>>)
    /\ upstreamCalls = <<"mcp: timeout">> => res.status = 504
    /\ upstreamCalls = <<"mcp: unreachable">> => res.status = 503
    /\ Len(upstreamCalls) <= 1
    /\ res.ends = 1

\* C20 as stated: in addition, every upstream answer that is not 2xx yields
\* 502 and a successful upstream call yields 200.
C20_EveryUpstreamStatus ==
  /\ C20_RejectedOrFailed
  /\ C20_Handled =>
       /\ upstreamCalls \in {<<"mcp: non-2xx">>, <<"mcp: non-2xx, body unreadable">>} =>
            res.status = 502
       /\ upstreamCalls = <<"mcp: 2xx">> => (res.status = 200 /\ res.error = "")

\* C20: in addition, an upstream answer that is not 2xx and whose body text
\* is read yields 502, an upstream 2xx answer whose body parses as JSON
\* yields 200, and when reading or parsing the upstream body fails the reply
\* is 503.
C20_UpstreamStatusWhenBodyRead ==
  /\ C20_RejectedOrFailed
  /\ C20_Handled =>
       /\ upstreamCalls = <<"mcp: non-2xx">> => res.status = 502
       /\ upstreamCalls = <<"mcp: 2xx">> => (res.status = 200 /\ res.error = "")
       /\ upstreamCalls \in {<<"mcp: non-2xx, body unreadable">>,
                             <<"mcp: 2xx, body is not JSON">>} => res.status = 503
       /\ res.status = 200 => upstreamCalls = <<"mcp: 2xx">>

C20_Witness ==
  /\ C20_Handled
  /\ reqBody.action = "browser_tabs"
  /\ upstreamCalls = <<"mcp: timeout">>
  /\ res.status = 504


\* C21 as stated: every OPTIONS request is answered 204 with an empty body,
\* whatever its path, with no client-header check, no body read and no route
\* handler entered.
C21_OptionsAlways204 ==
  (req # Null /\ req.method = "OPTIONS") =>
     /\ res.status = 204 /\ res.error = "" /\ res.heads = 1 /\ res.ends = 1
     /\ gwPc = "done" /\ handler = "none" /\ ~ bodyRead
     /\ upstreamCalls = <<>> /\ fsOps = <<>>

\* C21: an OPTIONS request whose Origin header is absent, empty or
\* allow-listed is answered 204 with an empty body, whatever its path and
\* its client header are, with no body read and no route handler entered; one
\* whose Origin header is present and not allow-listed is answered 403.
C21_OptionsUnlessForeignOrigin ==
  (req # Null /\ req.method = "OPTIONS") =>
     /\ gwPc = "done" /\ handler = "none" /\ ~ bodyRead
     /\ bodyPromise = "none" /\ received = <<>>
     /\ upstreamCalls = <<>> /\ fsOps = <<>>
     /\ res.heads = 1 /\ res.ends = 1
     /\ IF Truthy(req.origin) /\ ~ isAllowedOrigin(req.origin)
        THEN res.status = 403
        ELSE res.status = 204 /\ res.error = ""

C21_Witness ==
  /\ req # Null
  /\ req.method = "OPTIONS"
  /\ req.url = <<"/", "/">>
  /\ req.origin = Str(DEFAULT_ALLOWED_EXTENSION_ORIGINS[1])
  /\ req.client = Undefined
  /\ res.status = 204
  /\ res.allowOrigin = req.origin


\* C22: on /chat, from the moment the 200 head is sent until the response
\* ends, the status stays 200 and the head is not sent again; what was
\* written is never retracted or reordered; when the generator throws, the
\* error text is written after every chunk it had yielded and the response
\* ends; when it returns, the response ends with exactly its chunks.
C22_StatusFixedOnceStreaming ==
  [][gwPc = "stream" =>
       /\ res.status = 200 /\ res.heads = 1 /\ res.ends = 0
       /\ res'.status = 200 /\ res'.heads = 1 /\ res'.error = ""
       /\ Len(resWritten') >= Len(resWritten)
       /\ SubSeq(resWritten', 1, Len(resWritten)) = resWritten
       /\ gwPc' = "stream" => res'.ends = 0
       /\ gwPc' # "stream" =>
            /\ gwPc' = "done" /\ res'.ends = 1
            /\ resWritten = chatOut
            /\ resWritten' = IF agentPc = "threw"
                             THEN Append(chatOut, Yield("chatError", <<>>))
                             ELSE chatOut]_vars

C22_Witness ==
  /\ gwPc = "done"
  /\ handler = "chat"
  /\ chatRequest.provider = "copilot-agent"
  /\ agentPc = "threw"
  /\ res.status = 200 /\ res.ends = 1
  /\ Len(chatOut) >= 3
  /\ resWritten = Append(chatOut, Yield("chatError", <<>>))


(***************************************************************************)
(* server.ts, handleFileOperation: calls in flight at the same time.  Each *)
(* request is handled by its own call of the async handler, and a call     *)
(* gives way to the others at every await of a filesystem operation.       *)
(***************************************************************************)
\* Two validated requests for the same path whose safety checks passed:
\* each an append or a create, the first with content "a", the second "b".
InitFileCalls ==
  /\ PathOff
  /\ ExtensionOff
  /\ GatewayOff
  /\ RouterOff
  /\ fs = Workspaces[2].nodes
  /\ workspaceRoot = Workspaces[2].root
  /\ fsOps = <<>>
  /\ fileData = [p \in {q \in DOMAIN fs : fs[q].kind = "file"} |-> <<"x">>]
  /\ \E path \in {<<"a", "/", "a">>, <<"b">>, <<"a">>} :
       \E actions \in [1..2 -> {"append", "create"}] :
         fileHandlers =
           [h \in 1..2 |->
              [action |-> actions[h], path |-> path,
               content |-> IF h = 1 THEN <<"a">> ELSE <<"b">>,
               fileUri |-> uriJoinPath(workspaceRoot, Split(path, "/")),
               pc |-> "stat", existing |-> NoNode, existingContent |-> <<>>,
               status |-> 0]]

\* The switch of handleFileOperation for create and append, from one await
\* to the next: statSafe; for an append of an existing file, readFile;
\* createDirectory of the parent; writeFile and the 200 reply.  An operation
\* that throws is answered 500 by the catch.
handleFileOperation_await(h) ==
  LET c == fileHandlers[h]
      at(pc) == [c EXCEPT !.pc = pc]
      done(status) == [c EXCEPT !.pc = "done", !.status = status]
  IN /\ \/ /\ c.pc = "stat"
           /\ LET existing == statSafe(fs, c.fileUri)
              IN fileHandlers' =
                   [fileHandlers EXCEPT ![h] =
                      IF existing # NoNode /\ ~ isRegularFile(existing) THEN done(400)
                      ELSE IF c.action = "append" /\ existing # NoNode
                      THEN [at("read") EXCEPT !.existing = existing]
                      ELSE [at("createDirectory") EXCEPT !.existing = existing]]
           /\ UNCHANGED <<fs, fileData>>
        \/ /\ c.pc = "read"
           /\ LET rd == fsReadFile(fs, c.fileUri)
              IN fileHandlers' =
                   [fileHandlers EXCEPT ![h] =
                      IF ~ rd.ok THEN done(500)
                      ELSE [at("createDirectory") EXCEPT !.existingContent = fileData[rd.at]]]
           /\ UNCHANGED <<fs, fileData>>
        \/ /\ c.pc = "createDirectory"
           /\ LET mk == fsCreateDirectory(fs, getParentDirectoryUri(workspaceRoot, c.path))
              IN /\ fs' = mk.fs
                 /\ fileHandlers' = [fileHandlers EXCEPT ![h] =
                                       IF mk.ok THEN at("write") ELSE done(500)]
           /\ UNCHANGED fileData
        \/ /\ c.pc = "write"
           /\ LET wr == fsWriteFile(fs, c.fileUri)
              IN /\ fs' = wr.fs
                 /\ fileData' = IF ~ wr.ok THEN fileData
                                ELSE [p \in DOMAIN fileData \cup {wr.at} |->
                                        IF p = wr.at THEN c.existingContent \o c.content
                                        ELSE fileData[p]]
                 /\ fileHandlers' = [fileHandlers EXCEPT ![h] =
                                       IF wr.ok THEN done(200) ELSE done(500)]
     /\ UNCHANGED <<workspaceRoot, fsOps, pathVars, extensionVars, gwVars, routerVars>>

SpecFileCalls ==
  InitFileCalls /\ [][\E h \in DOMAIN fileHandlers : handleFileOperation_await(h)]_vars


C23_Apply(action, content, text) == IF action = "create" THEN content ELSE text \o content

\* C23: when two create or append requests for the same path were in flight
\* together and both were answered 200, the file holds what handling them
\* one after the other, in one of the two orders, leaves in it; two appends
\* of "a" and "b" leave a text that contains both.
C23_SerialOrder ==
  (fileHandlers # <<>> /\ \A h \in DOMAIN fileHandlers :
                            fileHandlers[h].pc = "done" /\ fileHandlers[h].status = 200) =>
     LET c == fileHandlers
         uri == c[1].fileUri
         before == IF uri \in DOMAIN Workspaces[2].nodes THEN <<"x">> ELSE <<>>
         after(h1, h2) ==
           C23_Apply(c[h2].action, c[h2].content,
                     C23_Apply(c[h1].action, c[h1].content, before))
     IN /\ fileData[uri] \in {after(1, 2), after(2, 1)}
        /\ (c[1].action = "append" /\ c[2].action = "append") =>
             (Includes(fileData[uri], <<"a">>) /\ Includes(fileData[uri], <<"b">>))


(***************************************************************************)
(* Claims about the tool loop of chatWithCopilotAgent.                     *)
(***************************************************************************)
IsCallPart(part) == part.kind = "call"
IsTextPart(part) == part.kind = "text"

\* The tool calls of the round in arrival order: the tool-call parts read
\* from the response of the last sendRequest.
C24_Arrived ==
  [k \in 1..Len(SelectSeq(sendRequests[Len(sendRequests)].parts, IsCallPart)) |->
     [callId |-> SelectSeq(sendRequests[Len(sendRequests)].parts, IsCallPart)[k].callId,
      name |-> SelectSeq(sendRequests[Len(sendRequests)].parts, IsCallPart)[k].name,
      parameters |-> SelectSeq(sendRequests[Len(sendRequests)].parts, IsCallPart)[k].input]]

\* C24: the tool calls buffered in a round are executed one at a time in
\* arrival order: while the model is awaited or its stream is read no tool
\* executes, the tool that executes is the next buffered call after those
\* already answered, and the result recorded under a call id is what
\* executeAgentTool returns for the call with that id.
C24_ToolsOneAtATimeInArrivalOrder ==
  /\ agentPc \in {"awaitModel", "stream", "loop", "select", "fallback"} => toolPc # "call"
  /\ \A i \in 1..Len(sendRequests) : ~ sendRequests[i].running
  /\ agentPc \in {"tools", "tool"} =>
       /\ toolCalls = C24_Arrived
       /\ Len(assistantParts) = Len(userResultParts)
       /\ Len(assistantParts) <= Len(toolCalls)
       /\ \A k \in 1..Len(userResultParts) :
            /\ assistantParts[k] = ToolCallPart(toolCalls[k].callId, toolCalls[k].name,
                                                toolCalls[k].parameters)
            /\ userResultParts[k].kind = "result"
            /\ userResultParts[k].callId = toolCalls[k].callId
            /\ \E throws \in BOOLEAN :
                 userResultParts[k].value =
                   executeAgentTool(fs, workspaceRoot, enableAgentTerminalTool, throws,
                                    toolCalls[k].name, toolCalls[k].parameters).result
  /\ agentPc = "tool" =>
       /\ Len(assistantParts) < Len(toolCalls)
       /\ toolCall = [name |-> toolCalls[Len(assistantParts) + 1].name,
                      params |-> toolCalls[Len(assistantParts) + 1].parameters]
       /\ toolPc \in {"call", "done"}

\* Two calls of different tools arrived in one round and both have been
\* executed, with different results.
C24_Witness ==
  /\ agentPc = "tools"
  /\ Len(toolCalls) = 2
  /\ Len(userResultParts) = 2
  /\ toolCalls[1].name # toolCalls[2].name
  /\ userResultParts[1].value # userResultParts[2].value
  /\ userResultParts[1].callId # userResultParts[2].callId


\* The messages of chatMessages that carry tool results.
C25_HasResult(message) == \E p \in 1..Len(message.parts) : message.parts[p].kind = "result"

\* C25 as stated: when the generator has finished, every message of tool
\* results was in the message list of some model invocation of the loop.
C25_EveryResultFedBack ==
  agentPc \in {"done", "threw"} =>
    \A m \in 1..Len(chatMessages) :
      C25_HasResult(chatMessages[m]) =>
        \E j \in 1..Len(sendRequests) :
          /\ Len(sendRequests[j].messages) >= m
          /\ sendRequests[j].messages[m] = chatMessages[m]

\* C25: the results of the tools called in round j - 1 are the last message
\* of the list given to invocation j, part by part under the call ids of the
\* tool-call parts that invocation j - 1 returned; results not given to any
\* invocation exist only while the next invocation is about to be made, or
\* are those of the round at the iteration cap.
C25_ResultsFedBackBelowCap ==
  /\ \A j \in 2..Len(sendRequests) :
       /\ Len(sendRequests[j].messages) = Len(sendRequests[j - 1].messages) + 2
       /\ sendRequests[j].messages[Len(sendRequests[j].messages)].role = "user"
       /\ Len(sendRequests[j].messages[Len(sendRequests[j].messages)].parts)
            = Len(SelectSeq(sendRequests[j - 1].parts, IsCallPart))
       /\ \A k \in 1..Len(SelectSeq(sendRequests[j - 1].parts, IsCallPart)) :
            /\ sendRequests[j].messages[Len(sendRequests[j].messages)].parts[k].kind = "result"
            /\ sendRequests[j].messages[Len(sendRequests[j].messages)].parts[k].callId
                 = SelectSeq(sendRequests[j - 1].parts, IsCallPart)[k].callId
            /\ \E throws \in BOOLEAN :
                 sendRequests[j].messages[Len(sendRequests[j].messages)].parts[k].value
                   = executeAgentTool(fs, workspaceRoot, enableAgentTerminalTool, throws,
                                      SelectSeq(sendRequests[j - 1].parts, IsCallPart)[k].name,
                                      SelectSeq(sendRequests[j - 1].parts, IsCallPart)[k].input).result
  /\ (sendRequests # <<>> /\ chatMessages # sendRequests[Len(sendRequests)].messages) =>
       \/ agentPc = "loop" /\ loopContinues(continueLoop, iterationCount)
       \/ iterationCount = maxIterations
  /\ (agentPc \in {"done", "threw"} /\ iterationCount < maxIterations) => C25_EveryResultFedBack

\* The third invocation has been made, after two rounds of two tool calls.
C25_Witness ==
  /\ agentPc = "awaitModel"
  /\ Len(sendRequests) = 3
  /\ Len(sendRequests[3].messages[Len(sendRequests[3].messages)].parts) = 2
  /\ Len(sendRequests[2].messages[Len(sendRequests[2].messages)].parts) = 2


\* C26: a round whose response stream ends without a tool-call part ends
\* the loop (and only such a round clears continueLoop); from then on no
\* tool is executed, no message is appended and no model is invoked: the
\* generator returns.
C26_NoToolCallEndsLoop ==
  [][/\ (agentPc = "stream" /\ agentPc' \notin {"stream", "fallback"}) =>
          ((SelectSeq(sendRequests[Len(sendRequests)].parts, IsCallPart) = <<>>)
             <=> (agentPc' = "loop" /\ ~ continueLoop'))
     /\ (agentPc \in {"loop", "done"} /\ ~ continueLoop) =>
          /\ agentPc' \in {agentPc, "done"}
          /\ ~ continueLoop'
          /\ UNCHANGED <<chatMessages, sendRequests, modelCalls, apiCalls, iterationCount,
                         toolVars, fsOps>>]_<<agentVars, toolVars, fsOps>>

\* The second round brought no tool call after a first round with one, and
\* the generator has returned.
C26_Witness ==
  /\ agentPc = "done"
  /\ ~ continueLoop
  /\ Len(sendRequests) = 2
  /\ SelectSeq(sendRequests[1].parts, IsCallPart) # <<>>
  /\ SelectSeq(sendRequests[2].parts, IsCallPart) = <<>>
  /\ Len(chatMessages) = Len(sendRequests[2].messages)


\* C27: the message list only grows, and only at the end of a round with
\* k >= 1 tool calls, by exactly two entries: an assistant entry with the k
\* tool-call parts the model returned, in order, and a user entry with k
\* tool-result parts under the same call ids in the same order; the entries
\* before them stay as they were, and every such round appends them.
C27_MessagesAppendOnly ==
  [][/\ chatMessages' # chatMessages =>
          /\ agentPc = "tools" /\ agentPc' = "loop"
          /\ Len(SelectSeq(sendRequests[Len(sendRequests)].parts, IsCallPart)) >= 1
          /\ Len(chatMessages') = Len(chatMessages) + 2
          /\ SubSeq(chatMessages', 1, Len(chatMessages)) = chatMessages
          /\ chatMessages'[Len(chatMessages) + 1].role = "assistant"
          /\ chatMessages'[Len(chatMessages) + 1].parts
               = SelectSeq(sendRequests[Len(sendRequests)].parts, IsCallPart)
          /\ chatMessages'[Len(chatMessages) + 2].role = "user"
          /\ Len(chatMessages'[Len(chatMessages) + 2].parts)
               = Len(chatMessages'[Len(chatMessages) + 1].parts)
          /\ \A k \in 1..Len(chatMessages'[Len(chatMessages) + 2].parts) :
               /\ chatMessages'[Len(chatMessages) + 2].parts[k].kind = "result"
               /\ chatMessages'[Len(chatMessages) + 2].parts[k].callId
                    = chatMessages'[Len(chatMessages) + 1].parts[k].callId
     /\ (agentPc = "tools" /\ agentPc' # "tool" /\ agentPc' # "tools") =>
          chatMessages' # chatMessages]_<<agentVars, toolVars>>

\* Two rounds with tool calls have been pushed, the second with two calls.
C27_Witness ==
  /\ agentPc = "loop"
  /\ iterationCount = 2
  /\ Len(chatMessages) = Len(chatRequest.messages) + 5
  /\ Len(chatMessages[Len(chatMessages)].parts) = 2
  /\ chatMessages[Len(chatMessages)].parts[1].callId # chatMessages[Len(chatMessages)].parts[2].callId


IsModelText(yielded) == yielded.kind = "text"

\* Every part the model has delivered to the agent loop so far, in order.
RECURSIVE C28_PartsRead(_)
C28_PartsRead(j) == IF j = 0 THEN <<>> ELSE C28_PartsRead(j - 1) \o sendRequests[j].parts

\* C28: what handleChat has written to the response is, in order, the values
\* the generator has yielded, each once (after a throw, followed by the
\* error text), and all of them once the response has ended; in agent mode
\* the model text among them is exactly the text parts of the model's
\* responses in the order they were read, so that no tool-call part is
\* written as model text.
C28_ChunksWrittenInOrder ==
  /\ \/ /\ Len(resWritten) <= Len(chatOut)
        /\ resWritten = SubSeq(chatOut, 1, Len(resWritten))
     \/ /\ gwPc = "done" /\ agentPc = "threw"
        /\ resWritten = Append(chatOut, Yield("chatError", <<>>))
  /\ (gwPc = "done" /\ agentPc = "done") => resWritten = chatOut
  /\ [k \in 1..Len(SelectSeq(chatOut, IsModelText)) |-> SelectSeq(chatOut, IsModelText)[k].text]
       = [k \in 1..Len(SelectSeq(C28_PartsRead(Len(sendRequests)), IsTextPart)) |->
            SelectSeq(C28_PartsRead(Len(sendRequests)), IsTextPart)[k].value]

\* An agent request has ended after two rounds, the first with two tool
\* calls: four text parts, two notices and two results were written.
C28_Witness ==
  /\ gwPc = "done" /\ agentPc = "done"
  /\ chatRequest.provider = "copilot-agent"
  /\ Len(sendRequests) = 2
  /\ Len(SelectSeq(sendRequests[1].parts, IsCallPart)) = 2
  /\ Len(SelectSeq(resWritten, IsModelText)) = 4
  /\ resWritten[2].text # resWritten[5].text


\* C29: every model invocation of the agent loop is given the token of the
\* one token source the loop created, not yet disposed; while the loop runs
\* that token is cancelled exactly when the caller's signal has been
\* aborted, and the abort listener is bound exactly when it can still be;
\* once the loop has been left, whether for lack of tool calls, at the
\* iteration cap or by an exception, the listener is removed and the token
\* source has been disposed once.
C29_OneTokenTornDownOnce ==
  /\ \A j \in 1..Len(sendRequests) :
       sendRequests[j].token = 1 /\ sendRequests[j].disposed = 0
  /\ agentPc \in {"loop", "awaitModel", "stream", "tools", "tool"} =>
       /\ Len(tokenSources) = 1
       /\ tokenSources[1].disposed = 0
       /\ tokenSources[1].aborted = (abortSignal.present /\ abortSignal.aborted)
       /\ tokenSources[1].listener = (abortSignal.present /\ ~ abortSignal.aborted)
  /\ (agentPc \in {"fallback", "copilot", "done", "threw"} /\ sendRequests # <<>>) =>
       /\ tokenSources[1].disposed = 1
       /\ ~ tokenSources[1].listener
  /\ (agentPc \in {"select", "call", "off"}) => sendRequests = <<>> /\ tokenSources = <<>>

\* The caller aborted after the first invocation had been made with the
\* token not cancelled; the loop has been left and its token source torn
\* down.
C29_Witness ==
  /\ agentPc = "done"
  /\ Len(sendRequests) >= 2
  /\ ~ sendRequests[1].cancelled
  /\ sendRequests[Len(sendRequests)].cancelled
  /\ tokenSources[1].aborted
  /\ tokenSources[1].disposed = 1
  /\ Len(tokenSources) = 1


(***************************************************************************)
(* Claims about bindAbortSignal.                                           *)
(***************************************************************************)
\* What the generators have bound the caller's signal to: the
\* AbortController of chatWithLMStudio, the token sources of chatWithCopilot
\* and chatWithCopilotAgent.
C30_Bindings ==
  {tokenSources[i] : i \in 1..Len(tokenSources)}
    \cup (IF lmPc \in {"off", "call"} THEN {} ELSE {controller})

\* C30: onAbort has run at most once for every binding; it ran at bind time
\* if the signal was already aborted and runs when the signal is aborted
\* while the listener is bound, so a listener is bound only while the signal
\* has not been aborted and onAbort has not run; once a generator has
\* finished, by completion, error, timeout or abort, no listener of it is
\* bound and calling unbind again changes nothing.
C30_NoListenerLeftOnAbortOnce ==
  /\ \A b \in C30_Bindings :
       /\ b.onAbortRuns <= 1
       /\ b.listener => (b.onAbortRuns = 0 /\ abortSignal.present /\ ~ abortSignal.aborted)
       /\ b.onAbortRuns = 1 => (abortSignal.present /\ abortSignal.aborted /\ b.aborted)
       /\ unbindAbort(unbindAbort(b)) = unbindAbort(b)
  /\ lmPc = "awaitFetch" =>
       /\ controller.onAbortRuns = 1 <=> (abortSignal.present /\ abortSignal.aborted)
       /\ controller.listener <=> (abortSignal.present /\ ~ abortSignal.aborted)
  /\ agentPc \in {"loop", "awaitModel", "stream", "tools", "tool", "copilot"} =>
       /\ tokenSources[Len(tokenSources)].onAbortRuns = 1
            <=> (abortSignal.present /\ abortSignal.aborted)
       /\ tokenSources[Len(tokenSources)].listener
            <=> (abortSignal.present /\ ~ abortSignal.aborted)
  /\ (lmPc = "ended" \/ agentPc \in {"done", "threw"}) =>
       \A b \in C30_Bindings : ~ b.listener /\ unbindAbort(b) = b

\* The agent loop and then its fallback chatWithCopilot have each bound the
\* signal; it was aborted while the fallback was bound, and the request is
\* over.
C30_Witness ==
  /\ agentPc \in {"done", "threw"}
  /\ Len(tokenSources) = 2
  /\ tokenSources[1].onAbortRuns = 0
  /\ tokenSources[2].onAbortRuns = 1
  /\ abortSignal.aborted

\* chatWithLMStudio has ended after the caller's abort ran its handler.
C30_WitnessLMStudio ==
  /\ lmPc = "ended"
  /\ controller.onAbortRuns = 1
  /\ ~ timedOut


(***************************************************************************)
(* extension.ts, handleChat and validateChatRequest over the bodies a      *)
(* client can send.                                                        *)
(***************************************************************************)
ChatSettings ==
  {Undefined, Null, Str(<<"c", "o", "p", "i", "l", "o", "t">>), JsonArray(<<>>)}
  \cup {JsonObject([provider |-> provider, copilot |-> copilot, lmStudio |-> lmStudio]) :
          provider \in {Str(<<"c", "o", "p", "i", "l", "o", "t">>), Str(<<"c", "o", "p", "i", "l", "o", "t", "-", "a", "g", "e", "n", "t">>), Str(<<"l", "m", "-", "s", "t", "u", "d", "i", "o">>),
                        Str(<<"o", "p", "e", "n", "a", "i">>), Str(<<"C", "o", "p", "i", "l", "o", "t">>), Str(<<>>), Undefined,
                        [t |-> "number", s |-> <<>>]},
          copilot \in {Undefined, Null, Str(<<"g", "p", "t", "-", "4", "o">>)}
                      \cup {JsonObject([model |-> model]) :
                              model \in {Str(<<"g", "p", "t", "-", "4", "o">>), Str(<<>>), Str(<<" ">>), Undefined,
                                         [t |-> "number", s |-> <<>>]}},
          lmStudio \in {Undefined, Null}
                       \cup {JsonObject([endpoint |-> endpoint, model |-> model]) :
                               endpoint \in {Str(<<"h", "t", "t", "p", ":", "/", "/", "h", ":", "1">>), Str(<<>>), Str(<<" ">>), Undefined},
                               model \in {Str(<<"m">>), Str(<<>>), Str(<<" ">>), Undefined}}}

ChatMessageLists ==
  {Undefined,
   JsonArray(<<>>),
   JsonArray(<<JsonObject([role |-> Str(<<"u", "s", "e", "r">>), content |-> Str(<<"h", "i">>)])>>),
   JsonArray(<<JsonObject([role |-> Str(<<"s", "y", "s", "t", "e", "m">>), content |-> Str(<<"h", "i">>)]),
               JsonObject([role |-> Str(<<"t", "o", "o", "l">>), content |-> Undefined])>>),
   JsonArray(<<JsonObject([role |-> Str(<<"u", "s", "e", "r">>), content |-> Undefined]), Null>>)}

ChatBodies ==
  {ChatBody(settings, Str(<<"p", "a", "g", "e">>), messages, Undefined, Undefined) :
     settings \in ChatSettings, messages \in ChatMessageLists}
  \cup {ChatBody(JsonChatRequest(c).settings, pageContent, JsonChatRequest(c).messages,
                 screenshot, operationMode) :
          c \in {[provider |-> "lm-studio", model |-> <<"g", "p", "t", "-", "4", "o">>, endpoint |-> <<"h", "t", "t", "p", ":", "/", "/", "h", ":", "1">>,
                  messages |-> <<"user">>]},
          pageContent \in {Str(<<>>), Undefined},
          screenshot \in {Undefined, Str(<<"d", "a", "t", "a", ":">>), [t |-> "number", s |-> <<>>]},
          operationMode \in {Undefined, Str(<<"t", "e", "x", "t">>), Str(<<"h", "y", "b", "r", "i", "d">>), Str(<<"s", "c", "r", "e", "e", "n", "s", "h", "o", "t">>),
                             Str(<<"a", "u", "t", "o">>)}}
  \cup {[json |-> "array"], [json |-> "string"], [json |-> "number"]}

\* handleChat has read the body of a POST /chat that passed the gateway's
\* checks.
InitValidateChat ==
  /\ PathOff
  /\ ExtensionOff
  /\ FileCallsOff
  /\ RouterOff
  /\ ReadOff
  /\ fs = Workspaces[2].nodes
  /\ workspaceRoot = Workspaces[2].root
  /\ fsOps = <<>>
  /\ configuredOrigins = <<>>
  /\ gwPc = "route"
  /\ req = [method |-> "POST", url |-> <<"/", "c", "h", "a", "t">>,
            origin |-> Str(DEFAULT_ALLOWED_EXTENSION_ORIGINS[1]),
            client |-> Str(ChromeExtension)]
  /\ reqBody \in ChatBodies
  /\ res = [Response(0, "", req.origin) EXCEPT !.heads = 0, !.ends = 0]
  /\ bodyRead = TRUE
  /\ handler = "chat"
  /\ upstreamCalls = <<>>
  /\ resWritten = <<>>

SpecValidateChat == InitValidateChat /\ [][HandleChat]_vars

\* What the claim calls a required field that is missing or empty.
C31_MissingOrEmpty(v) == v.t # "string" \/ v.s = <<>>

C31_ProviderOrRequiredFieldBad ==
  LET provider == Property(reqBody.settings, "provider")
  IN \/ provider \notin {Str(<<"c", "o", "p", "i", "l", "o", "t">>), Str(<<"c", "o", "p", "i", "l", "o", "t", "-", "a", "g", "e", "n", "t">>), Str(<<"l", "m", "-", "s", "t", "u", "d", "i", "o">>)}
     \/ /\ provider \in {Str(<<"c", "o", "p", "i", "l", "o", "t">>), Str(<<"c", "o", "p", "i", "l", "o", "t", "-", "a", "g", "e", "n", "t">>)}
        /\ C31_MissingOrEmpty(Property(Property(reqBody.settings, "copilot"), "model"))
     \/ /\ provider = Str(<<"l", "m", "-", "s", "t", "u", "d", "i", "o">>)
        /\ \/ C31_MissingOrEmpty(Property(Property(reqBody.settings, "lmStudio"), "endpoint"))
           \/ C31_MissingOrEmpty(Property(Property(reqBody.settings, "lmStudio"), "model"))

\* C31: a chat request whose provider is not one of the three, or whose
\* provider's required fields (copilot.model; lmStudio.endpoint and
\* lmStudio.model) are missing or empty, is answered 400 with one of the
\* messages of validateChatRequest, without the streaming head and without
\* a call of the router.
C31_BadSettingsRejected ==
  (handler = "chat" /\ gwPc \in {"stream", "done"} /\ reqBody.json = "object"
     /\ C31_ProviderOrRequiredFieldBad) =>
       /\ gwPc = "done"
       /\ res.status = 400 /\ res.heads = 1 /\ res.ends = 1
       /\ res.error \in {"Invalid chat settings", "Invalid provider", "Invalid copilot settings",
                         "Invalid lmStudio settings", "Invalid lmStudio endpoint",
                         "Invalid pageContent", "Invalid messages", "Invalid message item",
                         "Invalid message role", "Invalid message content",
                         "Invalid screenshot", "Invalid operationMode"}
       /\ upstreamCalls = <<>>
       /\ agentPc = "off"


\* The tokens of the lines up to the first line whose payload is [DONE].
RECURSIVE C32_TokensUntilDone(_)
C32_TokensUntilDone(lines) ==
  IF lines = <<>> \/ processLine(Head(lines)).done THEN <<>>
  ELSE processLine(Head(lines)).yield \o C32_TokensUntilDone(Tail(lines))

\* The lines of the bytes the reads have delivered; the last one is the
\* text after the last line break.
C32_LinesRead == Split(utf8Decode(SubSeq(body, 1, reader.pos), FALSE, <<>>).text, "\n")

\* A complete [DONE] line is among them.
C32_DoneRead == \E i \in 1..(Len(C32_LinesRead) - 1) : processLine(C32_LinesRead[i]).done

C32_StoppedAtDone ==
  StreamRead =>
     /\ Len(lmOut) <= Len(C32_TokensUntilDone(Split(utf8Decode(body, TRUE, <<>>).text, "\n")))
     /\ lmOut = SubSeq(C32_TokensUntilDone(Split(utf8Decode(body, TRUE, <<>>).text, "\n")),
                       1, Len(lmOut))
     /\ C32_DoneRead => lmPc = "ended" /\ reader.streamDone

C32_NoStepAfterDone ==
  (StreamRead /\ C32_DoneRead) => (lmOut' = lmOut /\ reader' = reader /\ lmPc' = "ended")

\* C32: once the reads have delivered a data line whose payload is exactly
\* [DONE], the generator has ended: it yields only the tokens of the lines
\* before that line, and from then on nothing is yielded and no read is
\* made, whether further data lines are in the buffered text or in the
\* bytes not read yet.
C32_NothingAfterDone == [] C32_StoppedAtDone /\ [][C32_NoStepAfterDone]_vars

\* [DONE] arrived together with the line data: {B} after it, which is left
\* in the buffer
C32_Witness ==
  /\ lmPc = "ended"
  /\ body = BodyAfterDone
  /\ fetchPromise = "fulfilled"
  /\ reader.streamDone
  /\ reader.pos = Len(body)
  /\ reader.pending = <<"d", "a", "t", "a", ":", " ", "{", "B", "}", "\n">>
  /\ lmOut = <<<<"A">>>>


(***************************************************************************)
(* extension.ts, isAllowedOrigin: requests that are answered at once,      *)
(* with the setting allowedExtensionOrigins edited between them.           *)
(***************************************************************************)
UpperCaseExtensionOrigin ==
  ChromeExtension \o <<":", "/", "/">> \o [i \in 1..ExtensionIdLength |-> "A"]

OriginRequests ==
  [method : {"GET", "OPTIONS"},
   url : {<<"/", "h", "e", "a", "l", "t", "h">>, <<"/", "n", "o", "p", "e">>},
   origin : {Undefined, Str(DEFAULT_ALLOWED_EXTENSION_ORIGINS[1]), Str(OtherExtensionOrigin),
             Str(MalformedExtensionOrigin), Str(UpperCaseExtensionOrigin),
             Str(OtherExtensionOrigin \o <<"a">>), Str(<<"h", "t", "t", "p", "s", ":", "/", "/", "e", "v", "i", "l">>)},
   client : {Undefined, Str(ChromeExtension)}]

OriginConfigurations ==
  OriginSettings
  \cup {<<Str(OtherExtensionOrigin \o <<"a">>)>>,
        <<Str(<<"h", "t", "t", "p", "s", ":", "/", "/", "e", "v", "i", "l">>)>>,
        <<Str(UpperCaseExtensionOrigin)>>,
        <<Str(MalformedExtensionOrigin), Str(OtherExtensionOrigin)>>}

\* The setting as it is by default: an empty list.
InitOrigins ==
  /\ PathOff
  /\ ExtensionOff
  /\ FileCallsOff
  /\ RouterOff
  /\ ReadOff
  /\ fs = Workspaces[2].nodes
  /\ workspaceRoot = Workspaces[2].root
  /\ fsOps = <<>>
  /\ configuredOrigins = <<>>
  /\ gwPc = "idle"
  /\ req = Null
  /\ reqBody = Null
  /\ res = Null
  /\ bodyRead = FALSE
  /\ handler = "none"
  /\ upstreamCalls = <<>>
  /\ resWritten = <<>>

\* The user edits copilotBrowserBridge.allowedExtensionOrigins; the next
\* getConfiguration(...).get(...) returns the new list.
ConfigurationChanged ==
  /\ \E setting \in OriginConfigurations \ {configuredOrigins} : configuredOrigins' = setting
  /\ UNCHANGED <<fs, workspaceRoot, fsOps, resWritten, gwPc, req, reqBody, res, bodyRead, handler,
                 upstreamCalls, chunks, receivedBytes, received, reqDestroyed, bodyPromise,
                 pathVars, extensionVars, fileVars, routerVars>>

NextOrigins ==
  \/ \E r \in OriginRequests : RequestOf(r)
  \/ RequestDone
  \/ ConfigurationChanged

SpecOrigins == InitOrigins /\ [][NextOrigins]_vars

\* chrome-extension:// followed by 32 of the given letters
C33_IsExtensionOrigin(value, letters) ==
  /\ Len(value) = Len(ChromeExtension) + 3 + 32
  /\ SubSeq(value, 1, Len(ChromeExtension) + 3) = <<"c", "h", "r", "o", "m", "e", "-", "e", "x", "t", "e", "n", "s", "i", "o", "n", ":", "/", "/">>
  /\ \A i \in (Len(ChromeExtension) + 4)..Len(value) : value[i] \in letters

C33_InAllowList(origin, entries, letters) ==
  \/ origin = <<"c", "h", "r", "o", "m", "e", "-", "e", "x", "t", "e", "n", "s", "i", "o", "n", ":", "/", "/", "n", "g", "g", "f", "p", "d", "a", "d", "f", "e", "p", "k", "b", "p", "j", "f", "n", "p", "c", "i", "h", "a", "g", "b", "n", "n", "f", "p", "e", "i", "a", "n">>
  \/ \E i \in 1..Len(entries) :
       /\ entries[i].t = "string"
       /\ Trim(entries[i].s) = origin
       /\ C33_IsExtensionOrigin(Trim(entries[i].s), letters)

\* A request with an Origin header is answered; whether it passed the
\* origin check is decided by the setting as it is at that moment.
C33_Answered(letters) ==
  (gwPc = "idle" /\ gwPc' = "done" /\ Truthy(req'.origin)) =>
     ((res'.error # "Forbidden origin")
        <=> C33_InAllowList(req'.origin.s, configuredOrigins, letters))

C33_LowerCaseLetters ==
  {"a", "b", "c", "d", "e", "f", "g", "h", "i", "j", "k", "l", "m",
   "n", "o", "p", "q", "r", "s", "t", "u", "v", "w", "x", "y", "z"}

\* C33 as stated: the origin of a request passes the origin check exactly
\* if it is the built-in entry or the trimmed text of an entry of the
\* setting that is chrome-extension:// followed by 32 letters, with the
\* setting read at that request.
C33_AcceptedIffListedWith32Letters == [][C33_Answered(C33_LowerCaseLetters)]_vars

\* C33, amended: the same with the 32 letters taken from a to p.
C33_AcceptedIffListedWith32LettersAToP ==
  [][C33_Answered({"a", "b", "c", "d", "e", "f", "g", "h",
                   "i", "j", "k", "l", "m", "n", "o", "p"})]_vars

\* The setting was edited from its default to an entry with spaces around
\* an extension origin, and a request of that origin is then served.
C33_Witness ==
  /\ gwPc = "done"
  /\ configuredOrigins = <<Str(<<" ">> \o OtherExtensionOrigin \o <<" ">>)>>
  /\ req.origin = Str(OtherExtensionOrigin)
  /\ handler = "health"
  /\ res.status = 200
  /\ res.allowOrigin = Str(OtherExtensionOrigin)


\* handleFileOperation answers a request whose body passed
\* validateFileOperationRequest.
C34_FileStep ==
  /\ gwPc = "route" /\ handler = "file" /\ gwPc' = "done"
  /\ validateFileOperationRequest(reqBody).ok

\* What the requested path names under the workspace folder.
C34_Target == statSafe(fs, uriJoinPath(workspaceRoot, Split(ReplaceAll(reqBody.path.s, "\\", "/"), "/")))

C34_NoWorkspace ==
  workspaceRoot = <<>> =>
     /\ res'.status = 400 /\ res'.error = "No workspace folder open"
     /\ fsOps' = <<>> /\ fs' = fs

C34_NotAFile ==
  (workspaceRoot # <<>> /\ C34_Target # NoNode /\ C34_Target.kind # "file") =>
     res'.status = 400 /\ fs' = fs

\* C34: with no workspace folder the answer is the error
\* "No workspace folder open" and nothing is done to the filesystem; read
\* or delete of a safe relative path that does not exist is answered 404;
\* any action on a path that exists and is not a regular file is answered
\* 400 with the filesystem unchanged.
C34_FileErrors ==
  [][C34_FileStep =>
       /\ C34_NoWorkspace
       /\ C34_NotAFile
       /\ (workspaceRoot # <<>> /\ reqBody.action \in {Str(<<"r", "e", "a", "d">>), Str(<<"d", "e", "l", "e", "t", "e">>)}
             /\ BridgeServer_isSafeRelativePath(reqBody.path)
             /\ C34_Target = NoNode) => res'.status = 404]_vars


(***************************************************************************)
(* llm-router.ts, chatWithCopilotAgent: the screenshot of a chat request   *)
(* in agent mode, from handleChat to the first sendRequest.                *)
(***************************************************************************)
\* The size below which a screenshot is dropped.
MinImageBytes == 100

\* The first bytes of a PNG, a JPEG, a WEBP, an AVI (RIFF, but not WEBP)
\* and a GIF file.
ImageSignatures ==
  [png |-> <<137, 80, 78, 71>>,
   jpeg |-> <<255, 216, 255>>,
   webp |-> <<82, 73, 70, 70, 0, 0, 0, 0, 87, 69, 66, 80>>,
   avi |-> <<82, 73, 70, 70, 0, 0, 0, 0, 65, 86, 73, 32>>,
   gif |-> <<71, 73, 70, 56>>]

\* A file of n bytes that starts with the signature.
ImageBytes(format, n) == ImageSignatures[format] \o [i \in 1..(n - Len(ImageSignatures[format])) |-> 0]

\* What a client puts before the base64 text.
ScreenshotHeaders ==
  {<<>>, <<"d", "a", "t", "a", ":", "i", "m", "a", "g", "e", "/", "p", "n", "g", ";", "b", "a", "s", "e", "6", "4", ",">>, <<"d", "a", "t", "a", ":", "i", "m", "a", "g", "e", "/", "j", "p", "g", ";", "b", "a", "s", "e", "6", "4", ",">>,
   <<"d", "a", "t", "a", ":", "I", "M", "A", "G", "E", "/", "W", "E", "B", "P", ";", "c", "h", "a", "r", "s", "e", "t", "=", "u", "t", "f", "-", "8", ";", "b", "a", "s", "e", "6", "4", ",">>, <<"d", "a", "t", "a", ":", ";", "b", "a", "s", "e", "6", "4", ",">>}

\* The screenshot text of a file: the header, the base64 text, and with
\* spaced a blank before, a line break after the 76th character and one at
\* the end.
ScreenshotText(bytes, header, spaced) ==
  IF spaced
  THEN <<" ">> \o header \o SubSeq(base64(bytes), 1, 76) \o <<"\n">>
       \o SubSeq(base64(bytes), 77, Len(base64(bytes))) \o <<"\n">>
  ELSE header \o base64(bytes)

ScreenshotFiles ==
  [format : {"png", "jpeg", "webp", "avi", "gif"},
   size : {MinImageBytes - 1, MinImageBytes},
   header : ScreenshotHeaders,
   spaced : BOOLEAN]

Screenshots ==
  {Str(ScreenshotText(ImageBytes(f.format, f.size), f.header, f.spaced)) : f \in ScreenshotFiles}
  \cup {Undefined, Str(<<>>), Str(<<" ">>), Str(<<"d", "a", "t", "a", ":", "i", "m", "a", "g", "e", "/", "p", "n", "g">>), Str(<<"d", "a", "t", "a", ":", "i", "m", "a", "g", "e", "/", "p", "n", "g", ";", "b", "a", "s", "e", "6", "4", ",">>)}

ScreenshotBodies ==
  {ChatBody(JsonChatRequest(c).settings, Str(<<"p", "a", "g", "e">>), JsonChatRequest(c).messages,
            screenshot, Undefined) :
     c \in {[provider |-> "copilot-agent", model |-> <<"g", "p", "t", "-", "4", "o">>, endpoint |-> <<"h", "t", "t", "p", ":", "/", "/", "h", ":", "1">>,
             messages |-> <<"user">>]},
     screenshot \in Screenshots}

\* handleChat has read the body of a chat request in agent mode.
InitScreenshot ==
  /\ PathOff
  /\ ExtensionOff
  /\ FileCallsOff
  /\ RouterOff
  /\ ReadOff
  /\ fs = Workspaces[2].nodes
  /\ workspaceRoot = Workspaces[2].root
  /\ fsOps = <<>>
  /\ configuredOrigins = <<>>
  /\ gwPc = "route"
  /\ req = [method |-> "POST", url |-> <<"/", "c", "h", "a", "t">>,
            origin |-> Str(DEFAULT_ALLOWED_EXTENSION_ORIGINS[1]),
            client |-> Str(ChromeExtension)]
  /\ reqBody \in ScreenshotBodies
  /\ res = [Response(0, "", req.origin) EXCEPT !.heads = 0, !.ends = 0]
  /\ bodyRead = TRUE
  /\ handler = "chat"
  /\ upstreamCalls = <<>>
  /\ resWritten = <<>>

NextScreenshot ==
  \/ HandleChat
  \/ Chat
  \/ AgentSelectModel
  \/ AgentSendRequest

SpecScreenshot == InitScreenshot /\ [][NextScreenshot]_vars

\* The first message the claim asks for, given the bytes of the file.
C35_FirstMessage(bytes) ==
  IF /\ Len(bytes) >= 100
     /\ \/ SubSeq(bytes, 1, 4) = <<137, 80, 78, 71>>
        \/ SubSeq(bytes, 1, 3) = <<255, 216, 255>>
        \/ SubSeq(bytes, 1, 4) = <<82, 73, 70, 70>> /\ SubSeq(bytes, 9, 12) = <<87, 69, 66, 80>>
  THEN [role |-> "user",
        parts |-> <<TextPart(<<"agentSystemPrompt">>), TextPart(<<"screenshotHeading">>),
                    DataPart(bytes,
                             IF bytes[1] = 137 THEN <<"i", "m", "a", "g", "e", "/", "p", "n", "g">>
                             ELSE IF bytes[1] = 255 THEN <<"i", "m", "a", "g", "e", "/", "j", "p", "e", "g">>
                             ELSE <<"i", "m", "a", "g", "e", "/", "w", "e", "b", "p">>)>>]
  ELSE [role |-> "user", parts |-> <<TextPart(<<"agentSystemPrompt">>)>>]

\* The messages built for the request and the messages of the first
\* sendRequest start with that message.
C35_StartsWith(first) ==
  /\ chatMessages[1] = first
  /\ Len(chatMessages) = 2
  /\ sendRequests # <<>> => sendRequests[1].messages[1] = first

\* C35: in agent mode a screenshot whose decoded bytes are at least 100
\* long and start with the PNG, JPEG or WEBP signature is the data part of
\* the first message, with the bytes of the file and the MIME type of the
\* signature whatever the data URL declares; any other screenshot leaves
\* the first message with the prompt text alone; and the request is
\* accepted and goes on to the model either way.
C35_ScreenshotAttachedByMagic ==
  (handler = "chat" /\ gwPc # "route" /\ reqBody \in ScreenshotBodies) =>
     /\ gwPc = "stream" /\ res.status = 200 /\ agentPc # "off"
     /\ \A f \in ScreenshotFiles :
          reqBody.screenshot = Str(ScreenshotText(ImageBytes(f.format, f.size), f.header, f.spaced))
            => C35_StartsWith(C35_FirstMessage(ImageBytes(f.format, f.size)))
     /\ (reqBody.screenshot.t # "string" \/ Len(reqBody.screenshot.s) < 100)
          => C35_StartsWith(C35_FirstMessage(<<>>))

\* a WEBP file of 100 bytes declared as image/png has been sent to the
\* model as image/webp
C35_Witness ==
  /\ agentPc = "awaitModel"
  /\ reqBody.screenshot = Str(ScreenshotText(ImageBytes("webp", 100), <<"d", "a", "t", "a", ":", "i", "m", "a", "g", "e", "/", "p", "n", "g", ";", "b", "a", "s", "e", "6", "4", ",">>, TRUE))
  /\ Len(sendRequests) = 1
  /\ Len(sendRequests[1].messages[1].parts) = 3
  /\ sendRequests[1].messages[1].parts[3] = DataPart(ImageBytes("webp", 100), <<"i", "m", "a", "g", "e", "/", "w", "e", "b", "p">>)


\* C36: the status line of a response is written at most once, the
\* response is ended at most once, and when the request handler has
\* returned, on whichever path, the response has been ended.
C36_HeadOnceEndedOnce ==
  (gwPc # "idle" /\ res # Null) =>
     /\ res.heads <= 1
     /\ res.ends <= 1
     /\ gwPc = "done" => res.heads = 1 /\ res.ends = 1


\* The request handler answers the request at once with the status and
\* the error text.
C37_Answered(status, error) ==
  gwPc' = "done" /\ res'.status = status /\ res'.error = error /\ res'.ends = 1

\* The order of the checks for the request r that is taken up: each answer
\* is given to the requests that passed every check before it, and a
\* request that passes all of them is not answered 401 or 403.
C37_ChecksOf(r) ==
  LET foreign == r.origin.t = "string" /\ r.origin.s # <<>> /\ ~ isAllowedOrigin(r.origin)
      noOrigin == r.origin.t # "string" \/ r.origin.s = <<>>
      health == r.method = "GET" /\ ParseUrl(r.url).ok /\ ParseUrl(r.url).pathname = <<"/", "h", "e", "a", "l", "t", "h">>
      badClient == r.client # Str(<<"c", "h", "r", "o", "m", "e", "-", "e", "x", "t", "e", "n", "s", "i", "o", "n">>)
  IN IF foreign
     THEN C37_Answered(403, "Forbidden origin") /\ res'.allowOrigin = Undefined
     ELSE IF r.method = "OPTIONS" THEN C37_Answered(204, "")
     ELSE IF ~ ParseUrl(r.url).ok THEN C37_Answered(400, "Invalid request URL")
     ELSE IF ~ health /\ noOrigin THEN C37_Answered(403, "Origin header is required")
     ELSE IF ~ health /\ badClient THEN C37_Answered(401, "Unauthorized client")
     ELSE res'.status \notin {401, 403}

\* C37: the request handler checks in the order disallowed origin (403),
\* OPTIONS (204), URL (400), missing origin (403), client header (401),
\* route.  A request with a non-empty Origin header that is not in the
\* allow-list gets 403 for every method and path, without an
\* Access-Control-Allow-Origin header, and a request that fails an origin
\* check and the client-header check gets the 403 of the origin check.
C37_CheckOrder == [][(gwPc = "idle" /\ gwPc' # "idle") => C37_ChecksOf(req')]_vars

\* POST /chat from a foreign origin without the client header: 403
C37_Witness ==
  /\ gwPc = "done"
  /\ req = [method |-> "POST", url |-> <<"/", "c", "h", "a", "t">>, origin |-> Str(<<"h", "t", "t", "p", "s", ":", "/", "/", "e", "v", "i", "l">>),
            client |-> Undefined]
  /\ res.status = 403
  /\ res.error = "Forbidden origin"
  /\ res.allowOrigin = Undefined
  /\ res.heads = 1 /\ res.ends = 1


(***************************************************************************)
(* Claims about the timeout of chatWithLMStudio.                           *)
(***************************************************************************)
\* The generator has resumed after its fetch call settled.
C38_FetchOver == lmPc \in {"reading", "ended"}

\* No step taken after the fetch call is over marks the request as timed out,
\* aborts the controller or reports a timeout.
C38_NoTimeoutAfterFetch ==
  C38_FetchOver =>
    /\ timedOut' = timedOut
    /\ controller' = controller
    /\ lmOut' # Append(lmOut, Diagnostic("timeout"))

\* The timer fires only while fetch is pending.
C38_TimeoutOnlyWhilePending ==
  timedOut' # timedOut => (lmPc = "awaitFetch" /\ fetchPromise = "pending")

\* C38: once the generator has resumed after fetch settled, with a response
\* or with a rejection, neither the timeout timer nor the listener on the
\* caller's signal is left; the timer fires only while fetch is pending, and
\* no step of the body's streaming times the request out, aborts the
\* controller or reports a timeout.
C38_TimerAndListenerEndWithFetch ==
  /\ [] (C38_FetchOver => (~ controller.timer /\ ~ controller.listener))
  /\ [][C38_TimeoutOnlyWhilePending /\ C38_NoTimeoutAfterFetch]_vars

\* The response arrived without abort or timeout, part of its body has been
\* streamed, and the caller's signal, not aborted, is no longer listened to.
C38_Witness ==
  /\ lmPc = "reading"
  /\ fetchPromise = "fulfilled"
  /\ reader.pos > 0
  /\ lmOut # <<>>
  /\ abortSignal.present /\ ~ abortSignal.aborted
  /\ ~ timedOut /\ ~ controller.aborted
  /\ ~ controller.timer /\ ~ controller.listener


(***************************************************************************)
(* extension.ts (the activation module) and BridgeServer.start / stop:     *)
(* the commands startServer and stopServer, deactivate, and the events of  *)
(* the http.Server each BridgeServer creates.                              *)
(***************************************************************************)
Ports == {3210, 3211}

\* No socket is bound to the port.
PortFree(port) ==
  /\ port \notin portsInUse
  /\ \A i \in 1..Len(bridgeServers) :
       ~ (bridgeServers[i].socket = "listening" /\ bridgeServers[i].port = port)

\* new BridgeServer(port) after start() has run up to the return of its
\* promise: this.server is the http.Server, listen() has been called and
\* neither "listening" nor "error" has been emitted.
listen(port) == [port |-> port, server |-> TRUE, socket |-> "pending"]

\* BridgeServer.stop(): server.close() releases a bound socket at once; on a
\* socket whose listen() is still pending it leaves the listeners of start()
\* registered.
BridgeServer_stop(b) ==
  IF b.server
  THEN [b EXCEPT !.server = FALSE,
                 !.socket = IF b.socket = "listening" THEN "closed"
                            ELSE IF b.socket = "pending" THEN "closedPending"
                            ELSE b.socket]
  ELSE b

InitExtension ==
  /\ PathOff
  /\ FileCallsOff
  /\ GatewayOff
  /\ RouterOff
  /\ fs = Workspaces[2].nodes
  /\ workspaceRoot = Workspaces[2].root
  /\ fsOps = <<>>
  /\ server = 0
  /\ bridgeServers = <<>>
  /\ serverPort \in Ports
  /\ portsInUse \in SUBSET Ports
  /\ shownMessage = ""
  /\ activated = FALSE

\* startServer(), up to its await.
startServer ==
  IF server # 0
  THEN /\ shownMessage' = "Server is already running"
       /\ UNCHANGED <<server, bridgeServers>>
  ELSE /\ Len(bridgeServers) < MaxBridgeServers
       /\ bridgeServers' = Append(bridgeServers, listen(serverPort))
       /\ server' = Len(bridgeServers) + 1
       /\ UNCHANGED shownMessage

\* activate(): the commands are registered; startServer() is called if
\* autoStart is set.
activate ==
  /\ ~ activated /\ bridgeServers = <<>>
  /\ activated' = TRUE
  /\ \E autoStart \in BOOLEAN :
       IF autoStart THEN startServer
       ELSE UNCHANGED <<server, bridgeServers, shownMessage>>
  /\ UNCHANGED <<fs, workspaceRoot, fsOps, pathVars, fileVars, gwVars, routerVars,
                 serverPort, portsInUse>>

\* The command copilotBrowserBridge.startServer.
StartServerCommand ==
  /\ activated
  /\ startServer
  /\ UNCHANGED <<fs, workspaceRoot, fsOps, pathVars, fileVars, gwVars, routerVars,
                 serverPort, portsInUse, activated>>

\* The command copilotBrowserBridge.stopServer.
stopServer ==
  /\ activated
  /\ IF server = 0
     THEN /\ shownMessage' = "Server is not running"
          /\ UNCHANGED <<server, bridgeServers>>
     ELSE /\ bridgeServers' = [bridgeServers EXCEPT ![server] = BridgeServer_stop(@)]
          /\ server' = 0
          /\ shownMessage' = "Server stopped"
  /\ UNCHANGED <<fs, workspaceRoot, fsOps, pathVars, fileVars, gwVars, routerVars,
                 serverPort, portsInUse, activated>>

deactivate ==
  /\ activated
  /\ activated' = FALSE
  /\ IF server = 0
     THEN UNCHANGED <<server, bridgeServers>>
     ELSE /\ bridgeServers' = [bridgeServers EXCEPT ![server] = BridgeServer_stop(@)]
          /\ server' = 0
  /\ UNCHANGED <<fs, workspaceRoot, fsOps, pathVars, fileVars, gwVars, routerVars,
                 serverPort, portsInUse, shownMessage>>

\* The http.Server emits "listening": onListening resolves the promise of
\* start() and startServer() resumes after its await.
onListening ==
  \E i \in 1..Len(bridgeServers) :
    /\ bridgeServers[i].socket \in {"pending", "closedPending"}
    /\ PortFree(bridgeServers[i].port)
    /\ bridgeServers' = [bridgeServers EXCEPT ![i].socket = "listening"]
    /\ shownMessage' = "Server started"
    /\ UNCHANGED <<fs, workspaceRoot, fsOps, pathVars, fileVars, gwVars, routerVars,
                   server, serverPort, portsInUse, activated>>

\* The http.Server emits "error": onStartupError clears this.server and
\* rejects the promise of start(); the catch of startServer() clears server.
onStartupError ==
  \E i \in 1..Len(bridgeServers) :
    /\ bridgeServers[i].socket \in {"pending", "closedPending"}
    /\ ~ PortFree(bridgeServers[i].port)
    /\ bridgeServers' = [bridgeServers EXCEPT ![i].socket = "failed", ![i].server = FALSE]
    /\ server' = 0
    /\ shownMessage' = "Failed to start server"
    /\ UNCHANGED <<fs, workspaceRoot, fsOps, pathVars, fileVars, gwVars, routerVars,
                   serverPort, portsInUse, activated>>

\* The setting copilotBrowserBridge.serverPort is changed.
ServerPortChanged ==
  /\ \E port \in Ports \ {serverPort} : serverPort' = port
  /\ UNCHANGED <<fs, workspaceRoot, fsOps, pathVars, fileVars, gwVars, routerVars,
                 server, bridgeServers, portsInUse, shownMessage, activated>>

\* Another process binds a free port or releases the port it had bound.
OtherProcess ==
  /\ \E port \in Ports :
       IF port \in portsInUse THEN portsInUse' = portsInUse \ {port}
       ELSE PortFree(port) /\ portsInUse' = portsInUse \cup {port}
  /\ UNCHANGED <<fs, workspaceRoot, fsOps, pathVars, fileVars, gwVars, routerVars,
                 server, bridgeServers, serverPort, shownMessage, activated>>

NextExtension ==
  \/ activate
  \/ StartServerCommand
  \/ stopServer
  \/ deactivate
  \/ onListening
  \/ onStartupError
  \/ ServerPortChanged
  \/ OtherProcess

SpecExtension == InitExtension /\ [][NextExtension]_vars

\* The BridgeServer objects whose socket is listening.
C39_Listening ==
  {i \in 1..Len(bridgeServers) : bridgeServers[i].socket = "listening"}

====
